---- MODULE Spec2Model ----
(***************************************************************************)
(* CPOR protocol core: message schema and registry (src/src/cpor/          *)
(* messages.py).  Messages are frozen dataclasses validated in             *)
(* __post_init__, converted to and from mappings and CBOR, dispatched by   *)
(* parse_message and signed with Ed25519.  The keys come from the          *)
(* cryptography manager (src/src/cpor/crypto.py): a software keystore and  *)
(* a pluggable hardware-backed store (TPMStub).                            *)
(*                                                                         *)
(* Python values are modelled as records [t, n, s, items]:                 *)
(*   t      the Python type ("none","int","bool","str","bytes","list",     *)
(*          "tuple","dict", and "pair" for one key/value entry of a dict)  *)
(*   n      the integer value (int, bool) or the length (str, bytes,       *)
(*          containers)                                                    *)
(*   s      the text of a str, the content label of a bytes value          *)
(*   items  the elements of a container, in order                          *)
(***************************************************************************)
EXTENDS Integers, Sequences, FiniteSets, TLC

\* ------------------------------------------------------------------------
\* Python values
\* ------------------------------------------------------------------------
PyVal(t, n, s, items) == [t |-> t, n |-> n, s |-> s, items |-> items]

NoneV == PyVal("none", 0, "", <<>>)
IntV(i) == PyVal("int", i, "", <<>>)
BoolV(b) == PyVal("bool", IF b THEN 1 ELSE 0, "", <<>>)
StrV(s) == PyVal("str", Len(s), s, <<>>)
BytesV(len, label) == PyVal("bytes", len, label, <<>>)
ListV(items) == PyVal("list", Len(items), "", items)
TupleV(items) == PyVal("tuple", Len(items), "", items)
PairV(k, v) == PyVal("pair", 2, "", <<k, v>>)
DictV(pairs) == PyVal("dict", Len(pairs), "", pairs)

IsNumeric(v) == v.t \in {"int", "bool"}
IsSized(v) == v.t \in {"str", "bytes", "list", "tuple", "dict"}

\* bool(v): the truth value Python's `not v` / `if v` uses.
Truthy(v) ==
    CASE v.t = "none" -> FALSE
      [] IsNumeric(v) -> v.n # 0
      [] OTHER -> v.n > 0

\* a == b in Python: int and bool compare by value, containers element by
\* element, dicts regardless of insertion order, other types only with
\* themselves.
RECURSIVE PyEq(_, _)
PyEq(a, b) ==
    IF IsNumeric(a) /\ IsNumeric(b) THEN a.n = b.n
    ELSE IF a.t # b.t THEN FALSE
    ELSE IF a.t \in {"list", "tuple", "pair"} THEN
        /\ a.n = b.n
        /\ \A i \in 1..a.n : PyEq(a.items[i], b.items[i])
    ELSE IF a.t = "dict" THEN
        /\ a.n = b.n
        /\ \A i \in 1..a.n : \E j \in 1..b.n :
              /\ PyEq(a.items[i].items[1], b.items[j].items[1])
              /\ PyEq(a.items[i].items[2], b.items[j].items[2])
    ELSE a = b

\* v in [c1, c2, ...] for a list of str constants.
InStrList(v, strs) == \E c \in strs : PyEq(v, StrV(c))

\* key in d, d[key] for a dict d and a str key.
DictHas(d, key) == \E i \in 1..d.n : d.items[i].items[1] = StrV(key)
DictGet(d, key) ==
    d.items[CHOOSE i \in 1..d.n : d.items[i].items[1] = StrV(key)].items[2]
DictKeys(d) == {d.items[i].items[1] : i \in 1..d.n}

\* hash(v) raises TypeError for list and dict (and for a tuple holding one).
RECURSIVE Hashable(_)
Hashable(v) ==
    CASE v.t \in {"list", "dict"} -> FALSE
      [] v.t = "tuple" -> \A i \in 1..v.n : Hashable(v.items[i])
      [] OTHER -> TRUE

\* ------------------------------------------------------------------------
\* CBOR (cbor2.dumps / cbor2.loads).  A byte string is modelled by the data
\* item it carries: [valid |-> FALSE] for bytes that are not CBOR at all.
\* dumps writes a tuple as a CBOR array, so a tuple comes back as a list;
\* every other value of the model is carried unchanged, dict order included.
\* ------------------------------------------------------------------------
RECURSIVE CborItem(_)
CborItem(v) ==
    IF v.t \in {"list", "tuple"} THEN
        ListV([i \in 1..v.n |-> CborItem(v.items[i])])
    ELSE IF v.t = "dict" THEN
        DictV([i \in 1..v.n |-> PairV(CborItem(v.items[i].items[1]),
                                      CborItem(v.items[i].items[2]))])
    ELSE v

CborDumps(v) == [valid |-> TRUE, item |-> CborItem(v)]
NotCbor == [valid |-> FALSE, item |-> NoneV]
NoWire == [valid |-> FALSE, item |-> StrV("no frame")]

\* ------------------------------------------------------------------------
\* The ten message kinds: dataclass fields (in dataclass order: the base
\* class fields first) and their defaults.
\* ------------------------------------------------------------------------
Kinds == <<"ConnectRequest", "ConnectResponse", "GenericMessage",
           "ResumeRequest", "ResumeResponse", "BatchMessage",
           "HeartbeatMessage", "CloseMessage", "AckMessage", "ErrorMessage">>
KindSet == {Kinds[i] : i \in 1..Len(Kinds)}

BaseFields == <<"version", "message_id", "timestamp">>

Fields(K) ==
    BaseFields \o
    CASE K = "ConnectRequest" ->
           <<"type", "client_id", "client_pubkey", "resume_sequence", "nonce",
             "registration_flag", "protocol_version", "capabilities",
             "key_storage">>
      [] K = "ConnectResponse" ->
           <<"type", "session_id", "server_pubkey", "accepted",
             "resume_sequence", "status_code", "error_message",
             "server_capabilities", "max_message_size", "ephemeral_pubkey">>
      [] K = "GenericMessage" ->
           <<"type", "sequence_number", "payload", "message_type", "priority",
             "requires_ack">>
      [] K = "ResumeRequest" ->
           <<"type", "client_id", "last_sequence_number", "client_nonce">>
      [] K = "ResumeResponse" ->
           <<"type", "status_code", "resume_sequence", "error_message",
             "session_id", "resume_accepted", "server_nonce">>
      [] K = "BatchMessage" ->
           <<"type", "messages", "batch_id", "total_count">>
      [] K = "HeartbeatMessage" ->
           <<"type", "heartbeat_id", "client_sequence", "server_sequence",
             "requires_response">>
      [] K = "CloseMessage" ->
           <<"type", "reason", "final_sequence", "graceful">>
      [] K = "AckMessage" ->
           <<"type", "ack_sequence", "ack_type", "error_code">>
      [] K = "ErrorMessage" ->
           <<"type", "error_code", "error_message", "severity", "recoverable",
             "details">>

FieldSet(K) == {Fields(K)[i] : i \in 1..Len(Fields(K))}

\* The default of the `type` field of each class.
Discriminant(K) ==
    CASE K = "ConnectRequest" -> "connect_request"
      [] K = "ConnectResponse" -> "connect_response"
      [] K = "GenericMessage" -> "generic"
      [] K = "ResumeRequest" -> "resume_request"
      [] K = "ResumeResponse" -> "resume_response"
      [] K = "BatchMessage" -> "batch"
      [] K = "HeartbeatMessage" -> "heartbeat"
      [] K = "CloseMessage" -> "close"
      [] K = "AckMessage" -> "ack"
      [] K = "ErrorMessage" -> "error"

DefaultMaxMessageSize == 1048576

Default(K, fld) ==
    CASE fld = "version" -> StrV("CPOR-2")
      [] fld \in {"message_id", "timestamp", "key_storage",
                  "ephemeral_pubkey", "final_sequence", "details"} -> NoneV
      [] fld = "type" -> StrV(Discriminant(K))
      [] fld = "error_message" ->
           IF K = "ErrorMessage" THEN StrV("") ELSE NoneV
      [] fld = "error_code" ->
           IF K = "ErrorMessage" THEN IntV(0) ELSE NoneV
      [] fld \in {"client_id", "session_id", "batch_id", "heartbeat_id",
                  "reason"} -> StrV("")
      [] fld \in {"client_pubkey", "nonce", "server_pubkey", "payload",
                  "client_nonce", "server_nonce"} -> BytesV(0, "")
      [] fld \in {"resume_sequence", "status_code", "sequence_number",
                  "priority", "last_sequence_number", "total_count",
                  "client_sequence", "server_sequence", "ack_sequence"} ->
           IntV(0)
      [] fld \in {"registration_flag", "accepted", "resume_accepted"} ->
           BoolV(FALSE)
      [] fld \in {"requires_ack", "requires_response", "graceful",
                  "recoverable"} -> BoolV(TRUE)
      [] fld = "protocol_version" -> StrV("CPOR-2")
      [] fld \in {"capabilities", "server_capabilities", "messages"} ->
           ListV(<<>>)
      [] fld = "max_message_size" -> IntV(DefaultMaxMessageSize)
      [] fld = "message_type" -> StrV("data")
      [] fld = "ack_type" -> StrV("message")
      [] fld = "severity" -> StrV("error")

\* ------------------------------------------------------------------------
\* Validation.  A validator returns "ok" or the name of the exception the
\* first failing statement raises: InvalidMessageError from an explicit
\* raise, TypeError from `<`, `<=`, `>` on a value that is not a number and
\* from len() of a value that has no length.
\* ------------------------------------------------------------------------
Ok == "ok"
Invalid == "InvalidMessageError"
TypeErr == "TypeError"

\* Run `checks` (a sequence of outcomes of statements, each computed as if
\* the statements before it passed) and return the first that is not ok.
RECURSIVE FirstFailure(_)
FirstFailure(checks) ==
    IF checks = <<>> THEN Ok
    ELSE IF Head(checks) # Ok THEN Head(checks)
    ELSE FirstFailure(Tail(checks))

\* if not v: raise
RequireTruthy(v) == IF Truthy(v) THEN Ok ELSE Invalid
\* if v < 0: raise
RequireNonNegative(v) ==
    IF ~IsNumeric(v) THEN TypeErr ELSE IF v.n < 0 THEN Invalid ELSE Ok
\* if v <= 0: raise
RequirePositive(v) ==
    IF ~IsNumeric(v) THEN TypeErr ELSE IF v.n <= 0 THEN Invalid ELSE Ok
\* if len(v) != 32: raise
RequireLen32(v) ==
    IF ~IsSized(v) THEN TypeErr ELSE IF v.n # 32 THEN Invalid ELSE Ok
\* if len(v) < 16: raise
RequireLen16(v) ==
    IF ~IsSized(v) THEN TypeErr ELSE IF v.n < 16 THEN Invalid ELSE Ok
\* if self.type != "<discriminant>": raise
RequireType(f, K) ==
    IF PyEq(f["type"], StrV(Discriminant(K))) THEN Ok ELSE Invalid

\* The validator without the length check of the nonce (a variant used to
\* show that the check is observable).
ConnectRequest_validate_fields_no_nonce_length(f) ==
    FirstFailure(<<
        RequireType(f, "ConnectRequest"),
        RequireTruthy(f["client_id"]),
        RequireTruthy(f["client_pubkey"]),
        RequireLen32(f["client_pubkey"]),
        RequireTruthy(f["nonce"]),
        IF f["key_storage"] # NoneV
              /\ ~InStrList(f["key_storage"], {"tpm", "software"})
          THEN Invalid ELSE Ok,
        RequireNonNegative(f["resume_sequence"]),
        IF f["capabilities"].t # "list" THEN Invalid ELSE Ok >>)

ConnectRequest_validate_fields(f) ==
    FirstFailure(<<
        RequireType(f, "ConnectRequest"),
        RequireTruthy(f["client_id"]),
        RequireTruthy(f["client_pubkey"]),
        RequireLen32(f["client_pubkey"]),
        RequireTruthy(f["nonce"]),
        RequireLen16(f["nonce"]),
        IF f["key_storage"] # NoneV
              /\ ~InStrList(f["key_storage"], {"tpm", "software"})
          THEN Invalid ELSE Ok,
        RequireNonNegative(f["resume_sequence"]),
        IF f["capabilities"].t # "list" THEN Invalid ELSE Ok >>)

\* ConnectResponse._validate_fields without the error_message rule.
ConnectResponse_validate_fields_no_rule(f) ==
    FirstFailure(<<
        RequireType(f, "ConnectResponse"),
        RequireTruthy(f["session_id"]),
        RequireTruthy(f["server_pubkey"]),
        RequireLen32(f["server_pubkey"]),
        RequirePositive(f["max_message_size"]),
        RequireNonNegative(f["resume_sequence"]),
        IF f["ephemeral_pubkey"] # NoneV
          THEN RequireLen32(f["ephemeral_pubkey"]) ELSE Ok >>)

ConnectResponse_validate_fields(f) ==
    FirstFailure(<<
        RequireType(f, "ConnectResponse"),
        RequireTruthy(f["session_id"]),
        RequireTruthy(f["server_pubkey"]),
        RequireLen32(f["server_pubkey"]),
        IF ~PyEq(f["status_code"], IntV(0)) /\ ~Truthy(f["error_message"])
          THEN Invalid ELSE Ok,
        RequirePositive(f["max_message_size"]),
        RequireNonNegative(f["resume_sequence"]),
        IF f["ephemeral_pubkey"] # NoneV
          THEN RequireLen32(f["ephemeral_pubkey"]) ELSE Ok >>)

GenericMessage_validate_fields(f) ==
    FirstFailure(<<
        RequireType(f, "GenericMessage"),
        RequireNonNegative(f["sequence_number"]),
        RequireTruthy(f["message_type"]),
        IF f["payload"].t # "bytes" THEN Invalid ELSE Ok >>)

ResumeRequest_validate_fields(f) ==
    FirstFailure(<<
        RequireType(f, "ResumeRequest"),
        RequireTruthy(f["client_id"]),
        RequireNonNegative(f["last_sequence_number"]),
        RequireTruthy(f["client_nonce"]),
        RequireLen16(f["client_nonce"]) >>)

ResumeResponse_validate_fields(f) ==
    FirstFailure(<<
        RequireType(f, "ResumeResponse"),
        RequireTruthy(f["session_id"]),
        RequireNonNegative(f["resume_sequence"]),
        RequireTruthy(f["server_nonce"]),
        RequireLen16(f["server_nonce"]),
        IF ~Truthy(f["resume_accepted"]) /\ ~Truthy(f["error_message"])
          THEN Invalid ELSE Ok >>)

\* The validator without its last check (a variant used to show that the
\* bound on the number of sub-messages is observable).
BatchMessage_validate_fields_no_count(f) ==
    FirstFailure(<<
        RequireType(f, "BatchMessage"),
        RequireTruthy(f["batch_id"]),
        RequirePositive(f["total_count"]) >>)

BatchMessage_validate_fields(f) ==
    FirstFailure(<<
        RequireType(f, "BatchMessage"),
        RequireTruthy(f["batch_id"]),
        RequirePositive(f["total_count"]),
        IF ~IsSized(f["messages"]) THEN TypeErr
        ELSE IF f["messages"].n > f["total_count"].n THEN Invalid ELSE Ok >>)

HeartbeatMessage_validate_fields(f) ==
    FirstFailure(<<
        RequireType(f, "HeartbeatMessage"),
        RequireTruthy(f["heartbeat_id"]),
        RequireNonNegative(f["client_sequence"]),
        RequireNonNegative(f["server_sequence"]) >>)

CloseMessage_validate_fields(f) ==
    FirstFailure(<<
        RequireType(f, "CloseMessage"),
        RequireTruthy(f["reason"]),
        IF f["final_sequence"] # NoneV
          THEN RequireNonNegative(f["final_sequence"]) ELSE Ok >>)

AckMessage_validate_fields(f) ==
    FirstFailure(<<
        RequireType(f, "AckMessage"),
        RequireNonNegative(f["ack_sequence"]),
        RequireTruthy(f["ack_type"]),
        IF ~InStrList(f["ack_type"], {"message", "heartbeat", "batch"})
          THEN Invalid ELSE Ok >>)

ErrorMessage_validate_fields(f) ==
    FirstFailure(<<
        RequireType(f, "ErrorMessage"),
        RequireTruthy(f["error_message"]),
        IF ~InStrList(f["severity"], {"warning", "error", "fatal"})
          THEN Invalid ELSE Ok >>)

ValidateFields(K, f) ==
    CASE K = "ConnectRequest" -> ConnectRequest_validate_fields(f)
      [] K = "ConnectResponse" -> ConnectResponse_validate_fields(f)
      [] K = "GenericMessage" -> GenericMessage_validate_fields(f)
      [] K = "ResumeRequest" -> ResumeRequest_validate_fields(f)
      [] K = "ResumeResponse" -> ResumeResponse_validate_fields(f)
      [] K = "BatchMessage" -> BatchMessage_validate_fields(f)
      [] K = "HeartbeatMessage" -> HeartbeatMessage_validate_fields(f)
      [] K = "CloseMessage" -> CloseMessage_validate_fields(f)
      [] K = "AckMessage" -> AckMessage_validate_fields(f)
      [] K = "ErrorMessage" -> ErrorMessage_validate_fields(f)

\* BaseMessage.__post_init__
PostInit(K, f) ==
    IF ~PyEq(f["version"], StrV("CPOR-2")) THEN Invalid
    ELSE ValidateFields(K, f)

\* ------------------------------------------------------------------------
\* Message instances and the codec.  An instance is [kind, f] with f a
\* function from the field names of its class to values.  An operation
\* returns [err, msg]: err = "none" and the instance, or the name of the
\* exception it raises and NoMsg.
\* ------------------------------------------------------------------------
NoMsg == [kind |-> "", f |-> <<>>]
Returned(m) == [err |-> "none", msg |-> m]
Raised(e) == [err |-> e, msg |-> NoMsg]

SerErr == "SerializationError"
SigErr == "SignatureError"

\* cls(**kwargs): the dataclass __init__ followed by __post_init__.  A
\* keyword that is not a field raises TypeError; a field not given takes
\* its default; a value given is stored as it is, None included.
New(K, kwargs) ==
    IF \E k \in DictKeys(kwargs) : k \notin {StrV(fld) : fld \in FieldSet(K)}
    THEN Raised(TypeErr)
    ELSE LET f == [fld \in FieldSet(K) |->
                     IF DictHas(kwargs, fld) THEN DictGet(kwargs, fld)
                     ELSE Default(K, fld)]
             v == PostInit(K, f)
         IN IF v = Ok THEN Returned([kind |-> K, f |-> f]) ELSE Raised(v)

\* dataclass __eq__: same class and equal field tuples.
MsgEq(a, b) ==
    /\ a.kind = b.kind
    /\ a.kind \in KindSet
    /\ \A fld \in FieldSet(a.kind) : PyEq(a.f[fld], b.f[fld])

\* BaseMessage.to_dict: the fields that are not None, in field order.
RECURSIVE ToDictPairs(_, _)
ToDictPairs(m, flds) ==
    IF flds = <<>> THEN <<>>
    ELSE (IF m.f[Head(flds)] # NoneV
            THEN <<PairV(StrV(Head(flds)), m.f[Head(flds)])>>
            ELSE <<>>) \o ToDictPairs(m, Tail(flds))

\* to_dict keeping the fields that are None.
to_dict_with_nulls(m) ==
    DictV([i \in 1..Len(Fields(m.kind)) |->
              PairV(StrV(Fields(m.kind)[i]), m.f[Fields(m.kind)[i]])])

to_dict(m) == DictV(ToDictPairs(m, Fields(m.kind)))

\* BaseMessage.to_cbor
to_cbor(m) == CborDumps(to_dict(m))

\* BaseMessage.from_dict: keep the known fields that are present and not
\* None, construct, and turn a TypeError into InvalidMessageError.
RECURSIVE ValidFieldPairs(_, _)
ValidFieldPairs(data, flds) ==
    IF flds = <<>> THEN <<>>
    ELSE (IF DictHas(data, Head(flds)) /\ DictGet(data, Head(flds)) # NoneV
            THEN <<PairV(StrV(Head(flds)), DictGet(data, Head(flds)))>>
            ELSE <<>>) \o ValidFieldPairs(data, Tail(flds))

from_dict(K, data) ==
    LET r == New(K, DictV(ValidFieldPairs(data, Fields(K))))
    IN IF r.err = TypeErr THEN Raised(Invalid) ELSE r

\* BaseMessage.from_cbor
from_cbor(K, bytes) ==
    IF ~bytes.valid THEN Raised(SerErr)
    ELSE IF bytes.item.t # "dict" THEN Raised(SerErr)
    ELSE LET r == from_dict(K, bytes.item)
         IN IF r.err \in {"none", Invalid} THEN r ELSE Raised(SerErr)

\* ------------------------------------------------------------------------
\* Kind resolution (_infer_message_type) and parse_message.
\* ------------------------------------------------------------------------
\* type_mapping: discriminant -> class name.
TypeMappingHas(v) == \E K \in KindSet : PyEq(v, StrV(Discriminant(K)))
TypeMapping(v) == CHOOSE K \in KindSet : PyEq(v, StrV(Discriminant(K)))

\* The condition of the i-th branch of the structural fallback.
StructuralPredicate(i, data) ==
    CASE i = 1 -> /\ DictHas(data, "client_id")
                  /\ (DictHas(data, "client_pubkey")
                        \/ DictHas(data, "public_key"))
      [] i = 2 -> /\ DictHas(data, "session_id")
                  /\ DictHas(data, "accepted")
                  /\ (DictHas(data, "server_pubkey")
                        \/ DictHas(data, "server_public_key"))
      [] i = 3 -> /\ (DictHas(data, "sequence_number")
                        \/ DictHas(data, "sequence_counter"))
                  /\ DictHas(data, "payload")
      [] i = 4 -> /\ (DictHas(data, "last_sequence_number")
                        \/ DictHas(data, "last_received_sequence"))
                  /\ DictHas(data, "client_nonce")
      [] i = 5 -> /\ (DictHas(data, "resume_accepted")
                        \/ DictHas(data, "status_code"))
                  /\ (DictHas(data, "server_nonce")
                        \/ DictHas(data, "resume_sequence"))
      [] i = 6 -> DictHas(data, "messages") /\ DictHas(data, "batch_id")
      [] i = 7 -> \/ DictHas(data, "heartbeat_id")
                  \/ (DictHas(data, "timestamp") /\ ~DictHas(data, "type"))
      [] i = 8 -> /\ DictHas(data, "reason")
                  /\ (DictHas(data, "graceful")
                        \/ DictHas(data, "final_sequence"))
      [] i = 9 -> DictHas(data, "ack_sequence") \/ DictHas(data, "ack_counter")
      [] i = 10 -> /\ DictHas(data, "error_code")
                   /\ (DictHas(data, "error_message")
                         \/ DictHas(data, "message"))

\* MESSAGE_TYPES: class name -> class.
MESSAGE_TYPES == KindSet

CannotDetermine == "Cannot determine message type"
UnknownType == "Unknown message type"

\* The chain with its second and fifth branches exchanged (a variant used
\* to show that the place of a branch in the order is observable).
RECURSIVE StructuralDetectionExchanged(_, _)
StructuralDetectionExchanged(i, data) ==
    IF i > Len(Kinds) THEN [err |-> Invalid, kind |-> ""]
    ELSE IF StructuralPredicate(IF i = 2 THEN 5 ELSE IF i = 5 THEN 2 ELSE i,
                                data)
    THEN [err |-> "none",
          kind |-> Kinds[IF i = 2 THEN 5 ELSE IF i = 5 THEN 2 ELSE i]]
    ELSE StructuralDetectionExchanged(i + 1, data)

\* The if / elif chain from branch i on.
RECURSIVE StructuralDetection(_, _)
StructuralDetection(i, data) ==
    IF i > Len(Kinds) THEN [err |-> Invalid, kind |-> ""]
    ELSE IF StructuralPredicate(i, data) THEN [err |-> "none", kind |-> Kinds[i]]
    ELSE StructuralDetection(i + 1, data)

\* _infer_message_type: [err, kind, via]; via tells which stage answered.
\* `type_field in type_mapping` hashes the value, which raises TypeError for
\* a list or a dict; a value that is not a key of the table falls through
\* to the structural detection.
infer_message_type(data) ==
    IF DictHas(data, "type") /\ ~Hashable(DictGet(data, "type"))
    THEN [err |-> TypeErr, kind |-> "", via |-> "table"]
    ELSE IF DictHas(data, "type") /\ TypeMappingHas(DictGet(data, "type"))
    THEN [err |-> "none", kind |-> TypeMapping(DictGet(data, "type")),
          via |-> "table"]
    ELSE LET r == StructuralDetection(1, data)
         IN [err |-> r.err, kind |-> r.kind, via |-> "fallback"]

\* parse_message: [err, msg, kind, via, text]; kind is the class name
\* _infer_message_type returned ("" when it raised or was not reached), text
\* the message of an InvalidMessageError raised by kind resolution.
parse_message(bytes) ==
    IF ~bytes.valid \/ bytes.item.t # "dict"
    THEN [err |-> SerErr, msg |-> NoMsg, kind |-> "", via |-> "", text |-> ""]
    ELSE LET i == infer_message_type(bytes.item)
         IN IF i.err = Invalid
            THEN [err |-> Invalid, msg |-> NoMsg, kind |-> "", via |-> i.via,
                  text |-> CannotDetermine]
            ELSE IF i.err # "none"
            THEN [err |-> SerErr, msg |-> NoMsg, kind |-> "", via |-> i.via,
                  text |-> ""]
            ELSE IF i.kind \notin MESSAGE_TYPES
            THEN [err |-> Invalid, msg |-> NoMsg, kind |-> i.kind,
                  via |-> i.via, text |-> UnknownType]
            ELSE LET r == from_dict(i.kind, bytes.item)
                 IN [err |-> IF r.err \in {"none", Invalid} THEN r.err
                             ELSE SerErr,
                     msg |-> r.msg, kind |-> i.kind, via |-> i.via,
                     text |-> ""]

\* ------------------------------------------------------------------------
\* Ed25519 (nacl.signing).  Signing key k has verify key k.  A signature is
\* [n, key, body]: n its length in bytes, and for n = 64 the key and the
\* bytes it was made over (it verifies under exactly that key and those
\* bytes).  VerifyKey.verify raises ValueError for a signature whose length
\* is not 64 and BadSignatureError for one that does not match.
\* ------------------------------------------------------------------------
NumKeys == 2
SigningKeys == 1..NumKeys
NotAKey == 0
SignatureBytes == 64

Ed25519Sign(k, bytes) == [n |-> SignatureBytes, key |-> k, body |-> bytes]
Ed25519Verify(vk, bytes, signature) ==
    IF signature.n # SignatureBytes THEN "ValueError"
    ELSE IF signature.key = vk /\ signature.body = bytes THEN "ok"
    ELSE "BadSignatureError"

NoSig == [n |-> 0, key |-> NotAKey, body |-> NoWire]
ZeroSig == [n |-> SignatureBytes, key |-> NotAKey, body |-> NotCbor]
Truncated(signature) == [signature EXCEPT !.n = SignatureBytes - 1]

\* BaseMessage.sign: [err, sig]
sign(m, signing_key) ==
    IF signing_key \notin SigningKeys THEN [err |-> SigErr, sig |-> NoSig]
    ELSE [err |-> "none", sig |-> Ed25519Sign(signing_key, to_cbor(m))]

\* verify_signature with every failure of VerifyKey.verify taken for a
\* mismatch (a variant used to show that the length check is observable).
verify_signature_all_false(m, signature, verify_key) ==
    IF verify_key \notin SigningKeys THEN [err |-> SigErr, value |-> ""]
    ELSE IF Ed25519Verify(verify_key, to_cbor(m), signature) = "ok"
    THEN [err |-> "none", value |-> "True"]
    ELSE [err |-> "none", value |-> "False"]

\* BaseMessage.verify_signature: [err, value]
verify_signature(m, signature, verify_key) ==
    IF verify_key \notin SigningKeys THEN [err |-> SigErr, value |-> ""]
    ELSE LET v == Ed25519Verify(verify_key, to_cbor(m), signature)
         IN CASE v = "ok" -> [err |-> "none", value |-> "True"]
              [] v = "BadSignatureError" -> [err |-> "none", value |-> "False"]
              [] OTHER -> [err |-> SigErr, value |-> ""]

\* ------------------------------------------------------------------------
\* Keys and the key stores (src/src/cpor/crypto.py).
\*
\* A SigningKey is modelled by its seed: SigningKey.generate() gives seeds
\* 1, 2, ... (a fresh key every time), ZeroSeed is the seed b"\x00" * 32 of
\* the placeholder key.  A public key is [form, n, key]: a VerifyKey object,
\* or n raw bytes (bytes, bytearray, memoryview) or characters (str); key is
\* the seed of the signing key it belongs to when n = 32.
\* A key store (a dict keyed by key_id) is the sequence of its entries in
\* insertion order.
\* ------------------------------------------------------------------------
ZeroSeed == 0
PublicKeyBytes == 32

VerifyKeyOf(signing_key) ==
    [form |-> "VerifyKey", n |-> PublicKeyBytes, key |-> signing_key]
KeyBytes(verify_key) == [verify_key EXCEPT !.form = "bytes"]
NaclVerifyKey(key_bytes) == [key_bytes EXCEPT !.form = "VerifyKey"]
NoPublicKey == [form |-> "", n |-> 0, key |-> ZeroSeed]

KeyGenErr == "KeyGenerationError"
SigningErr == "SigningError"
VerificationErr == "VerificationError"
TPMErr == "TPMError"
KeyStorageErr == "KeyStorageError"

\* None where a KeyPair is expected, and what is left of a KeyPair whose
\* construction raised.
NoKeyPair ==
    [err |-> "none", private_key |-> ZeroSeed, public_key |-> NoPublicKey,
     key_id |-> "", storage_type |-> ""]

\* KeyPair(private_key, public_key, key_id, storage_type): the instance
\* (err "none"), or err KeyGenerationError when __post_init__ raises
\* "storage_type must be 'software' or 'tpm'".
KeyPair(private_key, public_key, key_id, storage_type) ==
    IF storage_type \notin {"software", "tpm"}
    THEN [NoKeyPair EXCEPT !.err = KeyGenErr]
    ELSE [err |-> "none", private_key |-> private_key,
          public_key |-> public_key, key_id |-> key_id,
          storage_type |-> storage_type]

\* KeyPair.public_key_bytes
public_key_bytes(kp) == KeyBytes(kp.public_key)

\* KeyPair.private_key_bytes with the storage check left out.
private_key_bytes_exported(kp) ==
    [err |-> "none", n |-> PublicKeyBytes, seed |-> kp.private_key]

\* KeyPair.private_key_bytes: [err, n, seed]
private_key_bytes(kp) ==
    IF kp.storage_type = "tpm"
    THEN [err |-> KeyStorageErr, n |-> 0, seed |-> ZeroSeed]
    ELSE [err |-> "none", n |-> PublicKeyBytes, seed |-> kp.private_key]

\* key_id in d, d[key_id], d[key_id] = e, del d[key_id] for a store d.
HasKey(d, key_id) == \E i \in 1..Len(d) : d[i].key_id = key_id
GetKey(d, key_id) == d[CHOOSE i \in 1..Len(d) : d[i].key_id = key_id]
PutKey(d, e) ==
    IF HasKey(d, e.key_id)
    THEN [i \in 1..Len(d) |-> IF d[i].key_id = e.key_id THEN e ELSE d[i]]
    ELSE Append(d, e)
RECURSIVE DelKey(_, _)
DelKey(d, key_id) ==
    IF d = <<>> THEN <<>>
    ELSE (IF Head(d).key_id = key_id THEN <<>> ELSE <<Head(d)>>)
         \o DelKey(Tail(d), key_id)

\* ------------------------------------------------------------------------
\* TPMStub: _keys is a store of [key_id, signing_key].  Each operation
\* returns [err, text, ..., keys] with keys the store afterwards.
\* ------------------------------------------------------------------------
TPMEntry(key_id, signing_key) ==
    [key_id |-> key_id, signing_key |-> signing_key]

\* generate_key without the check for an existing key_id.
TPMStub_generate_key_overwrite(keys, key_id, fresh) ==
    [err |-> "none", text |-> "",
     pub |-> KeyBytes(VerifyKeyOf(fresh)),
     keys |-> PutKey(keys, TPMEntry(key_id, fresh))]

\* TPMStub.generate_key(key_id), fresh the key SigningKey.generate() gives
TPMStub_generate_key(keys, key_id, fresh) ==
    IF HasKey(keys, key_id)
    THEN [err |-> TPMErr, text |-> "already exists", pub |-> NoPublicKey,
          keys |-> keys]
    ELSE [err |-> "none", text |-> "",
          pub |-> KeyBytes(VerifyKeyOf(fresh)),
          keys |-> PutKey(keys, TPMEntry(key_id, fresh))]

\* TPMStub.sign(key_id, data)
TPMStub_sign(keys, key_id, data) ==
    IF ~HasKey(keys, key_id)
    THEN [err |-> TPMErr, text |-> "not found", sig |-> NoSig]
    ELSE [err |-> "none", text |-> "",
          sig |-> Ed25519Sign(GetKey(keys, key_id).signing_key, data)]

\* TPMStub.get_public_key(key_id)
TPMStub_get_public_key(keys, key_id) ==
    IF ~HasKey(keys, key_id)
    THEN [err |-> TPMErr, text |-> "not found", pub |-> NoPublicKey]
    ELSE [err |-> "none", text |-> "",
          pub |-> KeyBytes(VerifyKeyOf(GetKey(keys, key_id).signing_key))]

\* TPMStub.delete_key(key_id)
TPMStub_delete_key(keys, key_id) ==
    IF HasKey(keys, key_id)
    THEN [value |-> TRUE, keys |-> DelKey(keys, key_id)]
    ELSE [value |-> FALSE, keys |-> keys]

\* ------------------------------------------------------------------------
\* CryptoManager: sw is _software_keys (a store of KeyPair), tpm the _keys
\* of its TPMStub and avail what is_available() reports.  The operations
\* that change a store return the stores afterwards.
\* ------------------------------------------------------------------------
\* _generate_software_keypair keeping the entry an id already has.
generate_software_keypair_keep_existing(sw, tpm, key_id, fresh) ==
    LET keypair == KeyPair(fresh, VerifyKeyOf(fresh), key_id, "software")
    IN [err |-> "none", kp |-> keypair,
        sw |-> IF HasKey(sw, key_id) THEN sw ELSE PutKey(sw, keypair),
        tpm |-> tpm]

\* CryptoManager._generate_software_keypair
generate_software_keypair(sw, tpm, key_id, fresh) ==
    LET keypair == KeyPair(fresh, VerifyKeyOf(fresh), key_id, "software")
    IN [err |-> "none", kp |-> keypair, sw |-> PutKey(sw, keypair),
        tpm |-> tpm]

\* _generate_tpm_keypair handing out the stored key instead of a
\* placeholder.
generate_tpm_keypair_real_key(sw, tpm, key_id, fresh) ==
    LET r == TPMStub_generate_key(tpm, key_id, fresh)
    IN IF r.err # "none"
       THEN [err |-> KeyGenErr, kp |-> NoKeyPair, sw |-> sw, tpm |-> tpm]
       ELSE [err |-> "none",
             kp |-> KeyPair(fresh, NaclVerifyKey(r.pub), key_id, "tpm"),
             sw |-> sw, tpm |-> r.keys]

\* CryptoManager._generate_tpm_keypair
generate_tpm_keypair(sw, tpm, key_id, fresh) ==
    LET r == TPMStub_generate_key(tpm, key_id, fresh)
    IN IF r.err # "none"
       THEN [err |-> KeyGenErr, kp |-> NoKeyPair, sw |-> sw, tpm |-> tpm]
       ELSE [err |-> "none",
             kp |-> KeyPair(ZeroSeed, NaclVerifyKey(r.pub), key_id, "tpm"),
             sw |-> sw, tpm |-> r.keys]

\* generate_keypair refusing "tpm" when the store is unavailable.
generate_keypair_no_fallback(sw, tpm, avail, key_id, storage_type, fresh) ==
    IF storage_type \notin {"software", "tpm"}
    THEN [err |-> KeyGenErr, kp |-> NoKeyPair, sw |-> sw, tpm |-> tpm]
    ELSE IF storage_type = "tpm" /\ ~avail
    THEN [err |-> KeyGenErr, kp |-> NoKeyPair, sw |-> sw, tpm |-> tpm]
    ELSE IF storage_type = "tpm"
    THEN generate_tpm_keypair(sw, tpm, key_id, fresh)
    ELSE generate_software_keypair(sw, tpm, key_id, fresh)

\* generate_keypair storing a software pair before it looks at the storage
\* type.
generate_keypair_store_first(sw, tpm, avail, key_id, storage_type, fresh) ==
    IF storage_type \notin {"software", "tpm"}
    THEN [err |-> KeyGenErr, kp |-> NoKeyPair,
          sw |-> generate_software_keypair(sw, tpm, key_id, fresh).sw,
          tpm |-> tpm]
    ELSE IF storage_type = "tpm" /\ avail
    THEN generate_tpm_keypair(sw, tpm, key_id, fresh)
    ELSE generate_software_keypair(sw, tpm, key_id, fresh)

\* CryptoManager.generate_keypair: [err, kp, sw, tpm]
generate_keypair(sw, tpm, avail, key_id, storage_type, fresh) ==
    IF storage_type \notin {"software", "tpm"}
    THEN [err |-> KeyGenErr, kp |-> NoKeyPair, sw |-> sw, tpm |-> tpm]
    ELSE IF storage_type = "tpm" /\ avail
    THEN generate_tpm_keypair(sw, tpm, key_id, fresh)
    ELSE generate_software_keypair(sw, tpm, key_id, fresh)

\* get_keypair asking the pluggable store before the software keystore.
get_keypair_tpm_first(sw, tpm, avail, key_id) ==
    IF avail /\ TPMStub_get_public_key(tpm, key_id).err = "none"
    THEN KeyPair(ZeroSeed,
                 NaclVerifyKey(TPMStub_get_public_key(tpm, key_id).pub),
                 key_id, "tpm")
    ELSE IF HasKey(sw, key_id) THEN GetKey(sw, key_id)
    ELSE NoKeyPair

\* CryptoManager.get_keypair: the KeyPair, or NoKeyPair for None
get_keypair(sw, tpm, avail, key_id) ==
    IF HasKey(sw, key_id) THEN GetKey(sw, key_id)
    ELSE IF avail /\ TPMStub_get_public_key(tpm, key_id).err = "none"
    THEN KeyPair(ZeroSeed,
                 NaclVerifyKey(TPMStub_get_public_key(tpm, key_id).pub),
                 key_id, "tpm")
    ELSE NoKeyPair

\* sign_data asking the pluggable store before the software keystore.
sign_data_tpm_first(sw, tpm, avail, key_id, data) ==
    IF avail /\ HasKey(tpm, key_id)
    THEN [err |-> "none", sig |-> TPMStub_sign(tpm, key_id, data).sig]
    ELSE IF HasKey(sw, key_id)
    THEN [err |-> "none",
          sig |-> Ed25519Sign(GetKey(sw, key_id).private_key, data)]
    ELSE [err |-> KeyStorageErr, sig |-> NoSig]

\* CryptoManager.sign_data: [err, sig]
sign_data(sw, tpm, avail, key_id, data) ==
    IF HasKey(sw, key_id)
    THEN [err |-> "none",
          sig |-> Ed25519Sign(GetKey(sw, key_id).private_key, data)]
    ELSE IF avail
    THEN LET r == TPMStub_sign(tpm, key_id, data)
         IN IF r.err = "none" THEN [err |-> "none", sig |-> r.sig]
            ELSE IF r.text = "not found"
            THEN [err |-> KeyStorageErr, sig |-> NoSig]
            ELSE [err |-> SigningErr, sig |-> NoSig]
    ELSE [err |-> KeyStorageErr, sig |-> NoSig]

\* The outcome of the try block of CryptoManager.verify_signature: "ok",
\* or the exception raised in it.
VerifyAttempt(public_key, data, signature) ==
    IF public_key.form \in {"bytes", "bytearray", "memoryview"}
       /\ public_key.n # PublicKeyBytes
    THEN VerificationErr
    ELSE IF public_key.form
            \notin {"bytes", "bytearray", "memoryview", "VerifyKey"}
    THEN IF signature.n # SignatureBytes THEN VerificationErr
         ELSE "AttributeError"
    ELSE IF signature.n # SignatureBytes THEN VerificationErr
    ELSE Ed25519Verify(public_key.key, data, signature)

\* verify_signature answering False whenever the attempt fails.
CryptoManager_verify_signature_all_false(public_key, data, signature) ==
    IF VerifyAttempt(public_key, data, signature) = "ok"
    THEN [err |-> "none", value |-> "True"]
    ELSE [err |-> "none", value |-> "False"]

\* CryptoManager.verify_signature: [err, value]
CryptoManager_verify_signature(public_key, data, signature) ==
    LET v == VerifyAttempt(public_key, data, signature)
    IN CASE v = "ok" -> [err |-> "none", value |-> "True"]
         [] v = "BadSignatureError" -> [err |-> "none", value |-> "False"]
         [] OTHER -> [err |-> VerificationErr, value |-> ""]

\* delete_key calling the pluggable store whether it is available or not.
delete_key_ignoring_availability(sw, tpm, avail, key_id) ==
    LET in_sw == HasKey(sw, key_id)
        r == TPMStub_delete_key(tpm, key_id)
    IN [value |-> in_sw \/ r.value,
        sw |-> IF in_sw THEN DelKey(sw, key_id) ELSE sw,
        tpm |-> r.keys]

\* CryptoManager.delete_key: [value, sw, tpm]
delete_key(sw, tpm, avail, key_id) ==
    LET in_sw == HasKey(sw, key_id)
        r == IF avail THEN TPMStub_delete_key(tpm, key_id)
             ELSE [value |-> FALSE, keys |-> tpm]
    IN [value |-> in_sw \/ r.value,
        sw |-> IF in_sw THEN DelKey(sw, key_id) ELSE sw,
        tpm |-> r.keys]

\* list_keys enumerating the pluggable store as well.
list_keys_with_tpm(sw, tpm) ==
    [i \in 1..Len(sw) |-> sw[i].key_id]
    \o [i \in 1..Len(tpm) |-> tpm[i].key_id]

\* CryptoManager.list_keys
list_keys(sw, tpm) == [i \in 1..Len(sw) |-> sw[i].key_id]

\* ------------------------------------------------------------------------
\* Inputs: the mappings and frames the operations are applied to.
\* ------------------------------------------------------------------------
\* d with d[key] = v (a new key goes last); d without key.
DictSet(d, key, v) ==
    IF DictHas(d, key)
    THEN DictV([i \in 1..d.n |->
                  IF d.items[i].items[1] = StrV(key) THEN PairV(StrV(key), v)
                  ELSE d.items[i]])
    ELSE DictV(Append(d.items, PairV(StrV(key), v)))
DictDel(d, key) ==
    DictV(SelectSeq(d.items, LAMBDA p : p.items[1] # StrV(key)))

Key32 == BytesV(32, "k")
Nonce16 == BytesV(16, "n")
EmptyDict == DictV(<<>>)

\* Keyword arguments of one valid message of each kind.
BaseKwargs(K) ==
    CASE K = "ConnectRequest" ->
           DictV(<<PairV(StrV("client_id"), StrV("c1")),
                   PairV(StrV("client_pubkey"), Key32),
                   PairV(StrV("nonce"), Nonce16),
                   PairV(StrV("capabilities"), ListV(<<StrV("resume")>>))>>)
      [] K = "ConnectResponse" ->
           DictV(<<PairV(StrV("session_id"), StrV("s1")),
                   PairV(StrV("server_pubkey"), Key32),
                   PairV(StrV("accepted"), BoolV(TRUE))>>)
      [] K = "GenericMessage" ->
           DictV(<<PairV(StrV("sequence_number"), IntV(1)),
                   PairV(StrV("payload"), BytesV(5, "hello"))>>)
      [] K = "ResumeRequest" ->
           DictV(<<PairV(StrV("client_id"), StrV("c1")),
                   PairV(StrV("last_sequence_number"), IntV(1)),
                   PairV(StrV("client_nonce"), Nonce16)>>)
      [] K = "ResumeResponse" ->
           DictV(<<PairV(StrV("session_id"), StrV("s1")),
                   PairV(StrV("resume_sequence"), IntV(1)),
                   PairV(StrV("resume_accepted"), BoolV(TRUE)),
                   PairV(StrV("server_nonce"), Nonce16)>>)
      [] K = "BatchMessage" ->
           DictV(<<PairV(StrV("messages"), ListV(<<EmptyDict>>)),
                   PairV(StrV("batch_id"), StrV("b1")),
                   PairV(StrV("total_count"), IntV(2))>>)
      [] K = "HeartbeatMessage" ->
           DictV(<<PairV(StrV("heartbeat_id"), StrV("hb1")),
                   PairV(StrV("client_sequence"), IntV(1)),
                   PairV(StrV("server_sequence"), IntV(1))>>)
      [] K = "CloseMessage" ->
           DictV(<<PairV(StrV("reason"), StrV("bye")),
                   PairV(StrV("graceful"), BoolV(TRUE))>>)
      [] K = "AckMessage" ->
           DictV(<<PairV(StrV("ack_sequence"), IntV(5)),
                   PairV(StrV("ack_type"), StrV("message"))>>)
      [] K = "ErrorMessage" ->
           DictV(<<PairV(StrV("error_code"), IntV(4)),
                   PairV(StrV("error_message"), StrV("boom"))>>)

\* Values tried for a field, of the right and of the wrong type.
FieldValues ==
    {NoneV, IntV(-1), IntV(0), IntV(1), IntV(7), BoolV(TRUE), BoolV(FALSE),
     StrV(""), StrV("x"), StrV("tpm"), StrV("heartbeat"), StrV("fatal"),
     StrV("bogus"), StrV("CPOR-2"),
     BytesV(0, ""), BytesV(5, "short"), Nonce16, BytesV(31, "k"), Key32,
     ListV(<<>>), ListV(<<StrV("resume")>>),
     ListV(<<EmptyDict, EmptyDict, EmptyDict>>),
     TupleV(<<StrV("resume")>>), TupleV(<<EmptyDict>>),
     DictV(<<PairV(StrV("k"), ListV(<<IntV(1), IntV(2)>>))>>),
     DictV(<<PairV(StrV("k"), TupleV(<<IntV(1), IntV(2)>>))>>)}

\* Values tried for the discriminant.
TypeValues ==
    {StrV(Discriminant(K)) : K \in KindSet} \cup
    {StrV("unknown_type"), ListV(<<StrV("generic")>>), IntV(1), NoneV}

\* The base keyword arguments of a kind with one entry set, or one removed,
\* or a key that is no field added.
VariedKwargs(K) ==
    {BaseKwargs(K), EmptyDict}
    \cup {DictSet(BaseKwargs(K), fld, v) :
            fld \in FieldSet(K) \ {"type"}, v \in FieldValues}
    \cup {DictSet(BaseKwargs(K), "type", v) : v \in TypeValues}
    \cup {DictDel(BaseKwargs(K), k.s) : k \in DictKeys(BaseKwargs(K))}
    \cup {DictSet(BaseKwargs(K), "unexpected_field", StrV("value"))}

\* Keys the structural detection looks at, with a value for each.
StructuralKeys ==
    <<"type", "client_id", "client_pubkey", "public_key", "session_id",
      "accepted", "server_pubkey", "server_public_key", "sequence_number",
      "sequence_counter", "payload", "last_sequence_number",
      "last_received_sequence", "client_nonce", "resume_accepted",
      "status_code", "server_nonce", "resume_sequence", "messages",
      "batch_id", "heartbeat_id", "timestamp", "reason", "graceful",
      "final_sequence", "ack_sequence", "ack_counter", "error_code",
      "error_message", "message", "foo">>

ValueFor(key) ==
    CASE key = "type" -> StrV("unknown_type")
      [] key \in {"client_pubkey", "public_key", "server_pubkey",
                  "server_public_key"} -> Key32
      [] key \in {"client_nonce", "server_nonce"} -> Nonce16
      [] key = "payload" -> BytesV(5, "hello")
      [] key \in {"accepted", "resume_accepted", "graceful"} -> BoolV(TRUE)
      [] key \in {"sequence_number", "sequence_counter",
                  "last_sequence_number", "last_received_sequence",
                  "resume_sequence", "final_sequence", "ack_sequence",
                  "ack_counter", "timestamp"} -> IntV(1)
      [] key \in {"status_code", "error_code"} -> IntV(0)
      [] key = "messages" -> ListV(<<EmptyDict>>)
      [] OTHER -> StrV("x")

\* Largest number of keys of a mapping built from StructuralKeys.
MaxStructuralKeys == 2

\* The mapping holding the keys StructuralKeys[i], i in idx, in that order.
RECURSIVE StructuralDict(_, _)
StructuralDict(idx, from) ==
    IF from > Len(StructuralKeys) THEN <<>>
    ELSE (IF from \in idx
            THEN <<PairV(StrV(StructuralKeys[from]),
                         ValueFor(StructuralKeys[from]))>>
            ELSE <<>>) \o StructuralDict(idx, from + 1)

\* The subsets of S with at most k elements.
RECURSIVE SubsetsUpTo(_, _)
SubsetsUpTo(S, k) ==
    IF k = 0 THEN {{}}
    ELSE {{}} \cup {T \cup {x} : T \in SubsetsUpTo(S, k - 1), x \in S}

\* For each branch of the structural fallback, in the order of the chain,
\* the smallest sets of keys that satisfy its condition.
BranchKeys ==
    <<{{"client_id", "client_pubkey"}, {"client_id", "public_key"}},
      {{"session_id", "accepted", "server_pubkey"},
       {"session_id", "accepted", "server_public_key"}},
      {{"sequence_number", "payload"}, {"sequence_counter", "payload"}},
      {{"last_sequence_number", "client_nonce"},
       {"last_received_sequence", "client_nonce"}},
      {{"resume_accepted", "server_nonce"},
       {"resume_accepted", "resume_sequence"},
       {"status_code", "server_nonce"}, {"status_code", "resume_sequence"}},
      {{"messages", "batch_id"}},
      {{"heartbeat_id"}, {"timestamp"}},
      {{"reason", "graceful"}, {"reason", "final_sequence"}},
      {{"ack_sequence"}, {"ack_counter"}},
      {{"error_code", "error_message"}, {"error_code", "message"}}>>

\* Largest number of branches a mapping is built to satisfy at once.
MaxStructuralBranches == 2

\* The positions in StructuralKeys of the keys in S.
KeyIndexes(S) == {i \in 1..Len(StructuralKeys) : StructuralKeys[i] \in S}

\* The mappings without discriminant that hold what up to
\* MaxStructuralBranches branches ask for, and nothing else.
BranchDicts ==
    {DictV(StructuralDict(KeyIndexes(UNION T), 1)) :
        T \in SubsetsUpTo(UNION {BranchKeys[i] : i \in 1..Len(BranchKeys)},
                          MaxStructuralBranches)}

StructuralDicts ==
    {DictV(StructuralDict(idx, 1)) :
        idx \in SubsetsUpTo(1..Len(StructuralKeys), MaxStructuralKeys)}
    \cup BranchDicts

DictInputs == UNION {VariedKwargs(K) : K \in KindSet} \cup StructuralDicts

\* What a peer puts on the wire for kind K: the base mapping with its
\* discriminant, one field of it set to a value its validator rejects or
\* to a value of another type.
WireFieldValues ==
    {NoneV, IntV(-1), IntV(1), StrV(""), StrV("x"), BytesV(5, "short"),
     ListV(<<EmptyDict, EmptyDict, EmptyDict>>)}

PeerDicts(K) ==
    LET typed == DictSet(BaseKwargs(K), "type", StrV(Discriminant(K)))
    IN {typed} \cup {DictSet(typed, fld, v) :
                        fld \in FieldSet(K) \ {"type"}, v \in WireFieldValues}
               \cup {DictSet(BaseKwargs(K), "type", v) : v \in TypeValues}

\* Frames: bytes that are not CBOR, CBOR of something that is no mapping,
\* and the CBOR encoding of mappings.
WireInputs ==
    {NotCbor, CborDumps(ListV(<<IntV(1), IntV(2), IntV(3)>>)),
     CborDumps(StrV("not_a_dict"))}
    \cup {CborDumps(d) : d \in StructuralDicts}
    \cup {CborDumps(d) : d \in UNION {PeerDicts(K) : K \in KindSet}}

\* Mappings used where messages are signed: one valid message of each
\* kind, and pairs of messages that differ in one field.
SigDictInputs ==
    {BaseKwargs(K) : K \in KindSet}
    \cup {DictSet(BaseKwargs("ConnectRequest"), "client_id", StrV("c2")),
          DictSet(BaseKwargs("ConnectRequest"), "capabilities",
                  TupleV(<<StrV("resume")>>)),
          DictSet(BaseKwargs("GenericMessage"), "sequence_number", IntV(2)),
          DictSet(BaseKwargs("GenericMessage"), "priority", NoneV),
          DictSet(BaseKwargs("GenericMessage"), "message_id", StrV("m1")),
          DictSet(BaseKwargs("BatchMessage"), "messages",
                  TupleV(<<EmptyDict>>)),
          DictSet(BaseKwargs("ErrorMessage"), "details",
                  DictV(<<PairV(StrV("k"), ListV(<<IntV(1), IntV(2)>>))>>)),
          DictSet(BaseKwargs("ErrorMessage"), "details",
                  DictV(<<PairV(StrV("k"), TupleV(<<IntV(1), IntV(2)>>))>>)),
          DictSet(BaseKwargs("HeartbeatMessage"), "timestamp", IntV(7))}

\* ------------------------------------------------------------------------
\* State
\* ------------------------------------------------------------------------
VARIABLES
    dict,    \* the mapping at hand: keyword arguments, or decoded data
    dsrc,    \* the message dict is the to_dict() of, NoMsg if it is an input
    wire,    \* the frame at hand
    wsrc,    \* the message wire is the to_cbor() of, NoMsg if it is an input
    msg,     \* the message instance the last operation returned, or NoMsg
    res,     \* the last operation: what was called and how it ended
    sig,     \* the last signature made
    signed,  \* the message and key sig was made with
    software_keys,  \* CryptoManager._software_keys
    tpm_keys,       \* TPMStub._keys of the manager's store
    tpm_available,  \* TPMStub._available
    generated,      \* how many keys SigningKey.generate() has given
    kres,    \* the last key operation: what was called and how it ended
    held,    \* per key_id, the KeyPair the caller got from generate_keypair
             \* and still relies on (NoKeyPair if none)
    removed, \* the key_ids delete_key reported removed and not made again
    signer,  \* a thread inside sign_data: its position, locals and outcome
    deleter, \* a thread inside delete_key: its position, locals and outcome
    default_crypto_manager,  \* the module global: 0 for None, or the
                             \* number of a manager
    managers,    \* the CryptoManager objects made so far: who made each
                 \* and the key_ids its software keystore holds
    callers,     \* per thread, the module-level function it is inside
    quick_keys   \* the key_ids quick_generate_keypair has returned for
                 \* since the default manager was last set

msgvars == <<dict, dsrc, wire, wsrc, msg, res, sig, signed>>
keyvars == <<software_keys, tpm_keys, tpm_available, generated, kres, held,
             removed>>
thrvars == <<signer, deleter, default_crypto_manager, managers, callers,
             quick_keys>>
vars == <<msgvars, keyvars, thrvars>>

Call(op, cls, err) ==
    [op |-> op, cls |-> cls, err |-> err, kind |-> "", via |-> "",
     text |-> "", value |-> "", arg |-> NoSig, key |-> NotAKey]

NotSigned == [msg |-> NoMsg, key |-> NotAKey]

\* The identifiers, data and storage kinds the key operations are called
\* with, and the number of keys generated in a run.
KeyIds == {"k1", "k2"}
Datas == {BytesV(5, "hello"), BytesV(5, "hellx")}
StorageTypes == {"software", "tpm", "invalid_type"}
MaxGenerated == 3

\* The record of a key operation: the call (op, key_id, storage_type, data,
\* public_key, signature), what the stores held for key_id before it
\* (had_sw, had_tpm, old_key) and what it gave (err, text, and the value
\* returned in the field of its type).
KCall(op, key_id) ==
    [op |-> op, key_id |-> key_id, storage_type |-> "", data |-> NoneV,
     public_key |-> NoPublicKey, signature |-> NoSig,
     had_sw |-> FALSE, had_tpm |-> FALSE, old_key |-> ZeroSeed,
     err |-> "none", text |-> "", kp |-> NoKeyPair, sig |-> NoSig,
     pub |-> NoPublicKey, value |-> "", keys |-> <<>>,
     priv |-> [err |-> "none", n |-> 0, seed |-> ZeroSeed]]

\* What the stores hold for key_id when an operation is called.
Before(call) ==
    [call EXCEPT
       !.had_sw = HasKey(software_keys, call.key_id),
       !.had_tpm = HasKey(tpm_keys, call.key_id),
       !.old_key = IF HasKey(tpm_keys, call.key_id)
                   THEN GetKey(tpm_keys, call.key_id).signing_key
                   ELSE ZeroSeed]

\* CryptoManager() with its own TPMStub(): no keys, the store available.
NewManager ==
    /\ software_keys = <<>>
    /\ tpm_keys = <<>>
    /\ tpm_available = TRUE
    /\ generated = 0
    /\ held = [id \in KeyIds |-> NoKeyPair]
    /\ removed = {}

KeysIdle == NewManager /\ kres = KCall("init", "")

\* No message at hand.
NoMessages ==
    /\ dict = EmptyDict
    /\ dsrc = NoMsg
    /\ wire = NoWire
    /\ wsrc = NoMsg
    /\ msg = NoMsg
    /\ res = Call("init", "", "none")
    /\ sig = NoSig
    /\ signed = NotSigned

\* The threads that call into one manager, or into the module-level
\* functions, at the same time.
Threads == {"t1", "t2"}

SignerIdle ==
    [pc |-> "idle", key_id |-> "", data |-> NoneV, had_sw |-> FALSE,
     had_tpm |-> FALSE, sw_key |-> ZeroSeed, tpm_key |-> ZeroSeed,
     keypair |-> NoKeyPair, err |-> "none", sig |-> NoSig]

DeleterIdle == [pc |-> "idle", key_id |-> "", deleted |-> FALSE]

CallerIdle ==
    [pc |-> "idle", op |-> "", key_id |-> "", signature |-> NoSig,
     manager |-> 0, sets |-> 0, expected |-> FALSE,
     signing_key |-> ZeroSeed, err |-> "none", value |-> ""]

\* No thread is inside a call, and the module has just been imported.
NoThreads ==
    /\ signer = SignerIdle
    /\ deleter = DeleterIdle
    /\ default_crypto_manager = 0
    /\ managers = <<>>
    /\ callers = [t \in Threads |-> CallerIdle]
    /\ quick_keys = {}

\* No input yet.
Idle == NoMessages /\ KeysIdle /\ NoThreads

\* The input of a run: a mapping (from application code or a peer), or a
\* frame from the transport.
Init ==
    /\ \/ dict \in DictInputs /\ wire = NoWire
       \/ dict = EmptyDict /\ wire \in WireInputs
    /\ dsrc = NoMsg
    /\ wsrc = NoMsg
    /\ msg = NoMsg
    /\ res = Call("init", "", "none")
    /\ sig = NoSig
    /\ signed = NotSigned
    /\ KeysIdle
    /\ NoThreads

\* The application turns to another mapping; the signature made stays.
InjectSigDict ==
    /\ \E d \in SigDictInputs : dict' = d
    /\ dsrc' = NoMsg
    /\ wire' = NoWire
    /\ wsrc' = NoMsg
    /\ msg' = NoMsg
    /\ res' = Call("inject_dict", "", "none")
    /\ UNCHANGED <<sig, signed>>
    /\ UNCHANGED <<keyvars, thrvars>>

\* A run builds a message from the input mapping, encodes it once and
\* decodes the encoding; or decodes the input frame.  res.op tells how far
\* the run is.
Building == res.op \in {"init", "inject_dict"} /\ wire = NoWire
Built == msg # NoMsg /\ res.op \in {"construct", "from_dict", "sign",
                                     "verify_signature"}
                     /\ dsrc = NoMsg /\ wsrc = NoMsg
Received == wire # NoWire /\ res.op \in {"init", "to_cbor"}

\* K(**dict)
Construct(K) ==
    /\ Building
    /\ LET r == New(K, dict)
       IN /\ msg' = r.msg
          /\ res' = Call("construct", K, r.err)
    /\ UNCHANGED <<dict, dsrc, wire, wsrc, sig, signed>>
    /\ UNCHANGED <<keyvars, thrvars>>

\* K.from_dict(dict): of the input mapping, or of the to_dict() just made
FromDict(K) ==
    /\ Building \/ res.op = "to_dict"
    /\ LET r == from_dict(K, dict)
       IN /\ msg' = r.msg
          /\ res' = Call("from_dict", K, r.err)
    /\ UNCHANGED <<dict, dsrc, wire, wsrc, sig, signed>>
    /\ UNCHANGED <<keyvars, thrvars>>

\* dict = msg.to_dict()
ToDict ==
    /\ Built
    /\ dict' = to_dict(msg)
    /\ dsrc' = msg
    /\ res' = Call("to_dict", msg.kind, "none")
    /\ UNCHANGED <<wire, wsrc, msg, sig, signed>>
    /\ UNCHANGED <<keyvars, thrvars>>

\* wire = msg.to_cbor(); the input mapping is no longer needed
ToCbor ==
    /\ Built
    /\ wire' = to_cbor(msg)
    /\ wsrc' = msg
    /\ dict' = EmptyDict
    /\ res' = Call("to_cbor", msg.kind, "none")
    /\ UNCHANGED <<dsrc, msg, sig, signed>>
    /\ UNCHANGED <<keyvars, thrvars>>

\* K.from_cbor(wire)
FromCbor(K) ==
    /\ Received
    /\ LET r == from_cbor(K, wire)
       IN /\ msg' = r.msg
          /\ res' = Call("from_cbor", K, r.err)
    /\ UNCHANGED <<dict, dsrc, wire, wsrc, sig, signed>>
    /\ UNCHANGED <<keyvars, thrvars>>

\* parse_message(wire)
ParseMessage ==
    /\ Received
    /\ LET r == parse_message(wire)
       IN /\ msg' = r.msg
          /\ res' = [Call("parse_message", "", r.err) EXCEPT
                        !.kind = r.kind, !.via = r.via, !.text = r.text]
    /\ UNCHANGED <<dict, dsrc, wire, wsrc, sig, signed>>
    /\ UNCHANGED <<keyvars, thrvars>>

\* sig = msg.sign(k)
Sign(k) ==
    /\ msg # NoMsg
    /\ LET r == sign(msg, k)
       IN /\ res' = [Call("sign", msg.kind, r.err) EXCEPT !.key = k]
          /\ IF r.err = "none"
               THEN sig' = r.sig /\ signed' = [msg |-> msg, key |-> k]
               ELSE UNCHANGED <<sig, signed>>
    /\ UNCHANGED <<dict, dsrc, wire, wsrc, msg>>
    /\ UNCHANGED <<keyvars, thrvars>>

\* msg.verify_signature(s, vk) for s the signature made, a truncation of
\* it, or 64 zero bytes.
Verify(s, vk) ==
    /\ msg # NoMsg
    /\ sig # NoSig
    /\ LET r == verify_signature(msg, s, vk)
       IN res' = [Call("verify_signature", msg.kind, r.err) EXCEPT
                     !.value = r.value, !.arg = s, !.key = vk]
    /\ UNCHANGED <<dict, dsrc, wire, wsrc, msg, sig, signed>>
    /\ UNCHANGED <<keyvars, thrvars>>

\* _infer_message_type(d) for d the to_dict() just made without its "type"
\* key, as a peer that sends no discriminant puts it on the wire.
InferMessageType ==
    /\ res.op = "to_dict"
    /\ LET r == infer_message_type(DictDel(dict, "type"))
       IN res' = [Call("infer_message_type", "", r.err) EXCEPT
                     !.kind = r.kind, !.via = r.via]
    /\ UNCHANGED <<dict, dsrc, wire, wsrc, msg, sig, signed>>
    /\ UNCHANGED <<keyvars, thrvars>>

Next ==
    \/ \E K \in KindSet : Construct(K)
    \/ \E K \in KindSet : FromDict(K)
    \/ ToDict
    \/ ToCbor
    \/ \E K \in KindSet : FromCbor(K)
    \/ ParseMessage
    \/ InferMessageType

Spec == Init /\ [][Next]_vars

NextSig ==
    \/ InjectSigDict
    \/ \E K \in KindSet : Construct(K)
    \/ ToCbor
    \/ ParseMessage
    \/ \E k \in SigningKeys \cup {NotAKey} : Sign(k)
    \/ \E s \in {sig, Truncated(sig), ZeroSig},
          vk \in SigningKeys \cup {NotAKey} : Verify(s, vk)

SpecSig == Idle /\ [][NextSig]_vars

\* ------------------------------------------------------------------------
\* Key operations on one CryptoManager and, as the tests do, on its TPMStub
\* directly.
\* ------------------------------------------------------------------------
Drop(h, key_id) == [h EXCEPT ![key_id] = NoKeyPair]

\* kp = crypto.generate_keypair(key_id, storage_type)
GenerateKeypair(key_id, storage_type) ==
    /\ generated < MaxGenerated
    /\ LET r == generate_keypair(software_keys, tpm_keys, tpm_available,
                                 key_id, storage_type, generated + 1)
       IN /\ software_keys' = r.sw
          /\ tpm_keys' = r.tpm
          /\ generated' = IF r.err = "none" THEN generated + 1 ELSE generated
          /\ kres' = [Before(KCall("generate_keypair", key_id)) EXCEPT
                         !.storage_type = storage_type, !.err = r.err,
                         !.kp = r.kp]
          /\ held' = IF r.err # "none" THEN held
                     ELSE IF tpm_available THEN [held EXCEPT ![key_id] = r.kp]
                     ELSE Drop(held, key_id)
          /\ removed' = IF r.err = "none" THEN removed \ {key_id}
                        ELSE removed
    /\ UNCHANGED tpm_available
    /\ UNCHANGED <<msgvars, thrvars>>

\* crypto.get_keypair(key_id)
GetKeypair(key_id) ==
    /\ kres' = [Before(KCall("get_keypair", key_id)) EXCEPT
                   !.kp = get_keypair(software_keys, tpm_keys, tpm_available,
                                      key_id)]
    /\ UNCHANGED <<software_keys, tpm_keys, tpm_available, generated, held,
                   removed>>
    /\ UNCHANGED <<msgvars, thrvars>>

\* KeyPair(private_key=signing_key, public_key=signing_key.verify_key,
\* key_id=key_id, storage_type=storage_type) made by the caller, with the
\* key of seed b"\x00" * 32; the manager does not come to hold it.
NewKeyPair(key_id, storage_type) ==
    /\ LET kp == KeyPair(ZeroSeed, VerifyKeyOf(ZeroSeed), key_id,
                         storage_type)
       IN kres' = [KCall("KeyPair", key_id) EXCEPT
                      !.storage_type = storage_type, !.err = kp.err,
                      !.kp = kp]
    /\ UNCHANGED <<software_keys, tpm_keys, tpm_available, generated, held,
                   removed>>
    /\ UNCHANGED <<msgvars, thrvars>>

\* kp.private_key_bytes of the KeyPair just returned
PrivateKeyBytes ==
    /\ kres.op \in {"generate_keypair", "get_keypair", "KeyPair"}
    /\ kres.err = "none"
    /\ kres.kp # NoKeyPair
    /\ kres' = [kres EXCEPT !.op = "private_key_bytes",
                            !.priv = private_key_bytes(kres.kp),
                            !.err = private_key_bytes(kres.kp).err]
    /\ UNCHANGED <<software_keys, tpm_keys, tpm_available, generated, held,
                   removed>>
    /\ UNCHANGED <<msgvars, thrvars>>

\* crypto.sign_data(key_id, data)
SignData(key_id, data) ==
    /\ LET r == sign_data(software_keys, tpm_keys, tpm_available, key_id,
                          data)
       IN kres' = [Before(KCall("sign_data", key_id)) EXCEPT
                      !.data = data, !.err = r.err, !.sig = r.sig]
    /\ UNCHANGED <<software_keys, tpm_keys, tpm_available, generated, held,
                   removed>>
    /\ UNCHANGED <<msgvars, thrvars>>

\* crypto.verify_signature(kp.public_key_bytes or kp.public_key, data,
\* signature) for the signature sign_data just returned and the KeyPair
\* held for its key_id
VerifySigned(as_bytes, data) ==
    /\ kres.op = "sign_data"
    /\ kres.err = "none"
    /\ held[kres.key_id] # NoKeyPair
    /\ LET pk == IF as_bytes THEN public_key_bytes(held[kres.key_id])
                 ELSE held[kres.key_id].public_key
           r == CryptoManager_verify_signature(pk, data, kres.sig)
       IN kres' = [kres EXCEPT !.op = "verify_signed", !.public_key = pk,
                               !.signature = kres.sig, !.data = data,
                               !.sig = NoSig, !.err = r.err,
                               !.value = r.value]
    /\ UNCHANGED <<software_keys, tpm_keys, tpm_available, generated, held,
                   removed>>
    /\ UNCHANGED <<msgvars, thrvars>>

\* crypto.verify_signature(kp.public_key_bytes, data, signature) for a
\* signature one byte short of the one sign_data just returned
VerifyTruncated ==
    /\ kres.op = "sign_data"
    /\ kres.err = "none"
    /\ held[kres.key_id] # NoKeyPair
    /\ LET pk == public_key_bytes(held[kres.key_id])
           r == CryptoManager_verify_signature(pk, kres.data,
                                               Truncated(kres.sig))
       IN kres' = [kres EXCEPT !.op = "verify_truncated", !.public_key = pk,
                               !.signature = Truncated(kres.sig),
                               !.sig = NoSig, !.err = r.err,
                               !.value = r.value]
    /\ UNCHANGED <<software_keys, tpm_keys, tpm_available, generated, held,
                   removed>>
    /\ UNCHANGED <<msgvars, thrvars>>

\* crypto.delete_key(key_id)
DeleteKey(key_id) ==
    /\ LET r == delete_key(software_keys, tpm_keys, tpm_available, key_id)
       IN /\ software_keys' = r.sw
          /\ tpm_keys' = r.tpm
          /\ kres' = [Before(KCall("delete_key", key_id)) EXCEPT
                         !.value = IF r.value THEN "True" ELSE "False"]
          /\ removed' = IF r.value THEN removed \cup {key_id} ELSE removed
    /\ held' = Drop(held, key_id)
    /\ UNCHANGED <<tpm_available, generated>>
    /\ UNCHANGED <<msgvars, thrvars>>

\* crypto.list_keys()
ListKeys ==
    /\ kres' = [KCall("list_keys", "") EXCEPT
                   !.keys = list_keys(software_keys, tpm_keys)]
    /\ UNCHANGED <<software_keys, tpm_keys, tpm_available, generated, held,
                   removed>>
    /\ UNCHANGED <<msgvars, thrvars>>

\* tpm.set_available(available): the callers stop relying on their key
\* pairs when the store goes away
SetAvailable(available) ==
    /\ tpm_available' = available
    /\ kres' = [KCall("set_available", "") EXCEPT
                   !.value = IF available THEN "True" ELSE "False"]
    /\ held' = IF available THEN held ELSE [id \in KeyIds |-> NoKeyPair]
    /\ UNCHANGED <<software_keys, tpm_keys, generated, removed>>
    /\ UNCHANGED <<msgvars, thrvars>>

\* tpm.generate_key(key_id)
TPMGenerateKey(key_id) ==
    /\ generated < MaxGenerated
    /\ LET r == TPMStub_generate_key(tpm_keys, key_id, generated + 1)
       IN /\ tpm_keys' = r.keys
          /\ generated' = IF r.err = "none" THEN generated + 1 ELSE generated
          /\ kres' = [Before(KCall("tpm.generate_key", key_id)) EXCEPT
                         !.err = r.err, !.text = r.text, !.pub = r.pub]
          /\ held' = IF r.err = "none" THEN Drop(held, key_id) ELSE held
          /\ removed' = IF r.err = "none" THEN removed \ {key_id}
                        ELSE removed
    /\ UNCHANGED <<software_keys, tpm_available>>
    /\ UNCHANGED <<msgvars, thrvars>>

\* tpm.sign(key_id, data)
TPMSign(key_id, data) ==
    /\ LET r == TPMStub_sign(tpm_keys, key_id, data)
       IN kres' = [Before(KCall("tpm.sign", key_id)) EXCEPT
                      !.data = data, !.err = r.err, !.text = r.text,
                      !.sig = r.sig]
    /\ UNCHANGED <<software_keys, tpm_keys, tpm_available, generated, held,
                   removed>>
    /\ UNCHANGED <<msgvars, thrvars>>

\* tpm.get_public_key(key_id)
TPMGetPublicKey(key_id) ==
    /\ LET r == TPMStub_get_public_key(tpm_keys, key_id)
       IN kres' = [Before(KCall("tpm.get_public_key", key_id)) EXCEPT
                      !.err = r.err, !.text = r.text, !.pub = r.pub]
    /\ UNCHANGED <<software_keys, tpm_keys, tpm_available, generated, held,
                   removed>>
    /\ UNCHANGED <<msgvars, thrvars>>

\* tpm.delete_key(key_id)
TPMDeleteKey(key_id) ==
    /\ LET r == TPMStub_delete_key(tpm_keys, key_id)
       IN /\ tpm_keys' = r.keys
          /\ kres' = [Before(KCall("tpm.delete_key", key_id)) EXCEPT
                         !.value = IF r.value THEN "True" ELSE "False"]
    /\ held' = Drop(held, key_id)
    /\ UNCHANGED <<software_keys, tpm_available, generated, removed>>
    /\ UNCHANGED <<msgvars, thrvars>>

NextKeys ==
    \/ \E id \in KeyIds, st \in StorageTypes : GenerateKeypair(id, st)
    \/ \E id \in KeyIds : GetKeypair(id)
    \/ \E id \in KeyIds, st \in StorageTypes : NewKeyPair(id, st)
    \/ PrivateKeyBytes
    \/ \E id \in KeyIds, d \in Datas : SignData(id, d)
    \/ \E b \in BOOLEAN, d \in Datas : VerifySigned(b, d)
    \/ VerifyTruncated
    \/ \E id \in KeyIds : DeleteKey(id)
    \/ ListKeys
    \/ \E b \in BOOLEAN : SetAvailable(b)
    \/ \E id \in KeyIds : TPMGenerateKey(id)
    \/ \E id \in KeyIds, d \in Datas : TPMSign(id, d)
    \/ \E id \in KeyIds : TPMGetPublicKey(id)
    \/ \E id \in KeyIds : TPMDeleteKey(id)

SpecKeys == Idle /\ [][NextKeys]_vars

\* ------------------------------------------------------------------------
\* crypto.verify_signature(public_key, data, signature) on its own: the
\* public keys (raw bytes, bytearray, memoryview, VerifyKey object, str;
\* well-formed and not) and signatures (made by sign_data, truncated, too
\* long, 64 other bytes, empty) it is called with.
\* ------------------------------------------------------------------------
PublicKeyInputs ==
    {[form |-> f, n |-> PublicKeyBytes, key |-> k] :
        f \in {"bytes", "bytearray", "memoryview", "VerifyKey"},
        k \in 0..MaxGenerated}
    \cup {[form |-> "bytes", n |-> 5, key |-> ZeroSeed],
          [form |-> "memoryview", n |-> 5, key |-> ZeroSeed],
          [form |-> "bytes", n |-> PublicKeyBytes + 1, key |-> ZeroSeed],
          [form |-> "bytearray", n |-> PublicKeyBytes - 1, key |-> ZeroSeed],
          [form |-> "str", n |-> PublicKeyBytes, key |-> ZeroSeed],
          [form |-> "str", n |-> 5, key |-> ZeroSeed]}

SignatureInputs ==
    {Ed25519Sign(k, d) : k \in 1..MaxGenerated, d \in Datas}
    \cup {Truncated(Ed25519Sign(1, BytesV(5, "hello"))),
          [Ed25519Sign(1, BytesV(5, "hello")) EXCEPT
              !.n = SignatureBytes + 1],
          ZeroSig, NoSig}

VerifyInit ==
    /\ NoMessages
    /\ NewManager
    /\ NoThreads
    /\ \E pk \in PublicKeyInputs, d \in Datas, s \in SignatureInputs :
          kres = [KCall("verify_input", "") EXCEPT
                     !.public_key = pk, !.data = d, !.signature = s]

VerifySignature ==
    /\ kres.op = "verify_input"
    /\ LET r == CryptoManager_verify_signature(kres.public_key, kres.data,
                                               kres.signature)
       IN kres' = [kres EXCEPT !.op = "verify_signature", !.err = r.err,
                               !.value = r.value]
    /\ UNCHANGED <<software_keys, tpm_keys, tpm_available, generated, held,
                   removed>>
    /\ UNCHANGED <<msgvars, thrvars>>

NextVerify == VerifySignature

SpecVerify == VerifyInit /\ [][NextVerify]_vars

\* ------------------------------------------------------------------------
\* sign_data and delete_key on one manager from two threads.  A thread
\* takes one step per test or statement of the method; the other thread
\* may run between any two of them.
\* ------------------------------------------------------------------------
KeyErr == "KeyError"

RaceFrame ==
    /\ UNCHANGED <<generated, kres, held, removed, tpm_available>>
    /\ UNCHANGED <<default_crypto_manager, managers, callers, quick_keys>>
    /\ UNCHANGED msgvars

SignerReturns(s) == signer' = [signer EXCEPT !.pc = "done", !.sig = s]
SignerRaises(e) == signer' = [signer EXCEPT !.pc = "done", !.err = e]

\* a thread enters crypto.sign_data(key_id, data)
SignDataCall(key_id, data) ==
    /\ signer.pc = "idle"
    /\ signer' = [SignerIdle EXCEPT
          !.pc = "check", !.key_id = key_id, !.data = data,
          !.had_sw = HasKey(software_keys, key_id),
          !.had_tpm = HasKey(tpm_keys, key_id),
          !.sw_key = IF HasKey(software_keys, key_id)
                     THEN GetKey(software_keys, key_id).private_key
                     ELSE ZeroSeed,
          !.tpm_key = IF HasKey(tpm_keys, key_id)
                      THEN GetKey(tpm_keys, key_id).signing_key
                      ELSE ZeroSeed]
    /\ UNCHANGED <<software_keys, tpm_keys, deleter>>
    /\ RaceFrame

\* if key_id in self._software_keys:
SignDataCheck ==
    /\ signer.pc = "check"
    /\ signer' = [signer EXCEPT
          !.pc = IF HasKey(software_keys, signer.key_id) THEN "lookup"
                 ELSE "tpm_available"]
    /\ UNCHANGED <<software_keys, tpm_keys, deleter>>
    /\ RaceFrame

\* keypair = self._software_keys[key_id], outside the try block
SignDataLookup ==
    /\ signer.pc = "lookup"
    /\ IF HasKey(software_keys, signer.key_id)
         THEN signer' = [signer EXCEPT
                 !.pc = "sign",
                 !.keypair = GetKey(software_keys, signer.key_id)]
         ELSE SignerRaises(KeyErr)
    /\ UNCHANGED <<software_keys, tpm_keys, deleter>>
    /\ RaceFrame

\* return keypair.private_key.sign(data).signature
SignDataSoftwareSign ==
    /\ signer.pc = "sign"
    /\ SignerReturns(Ed25519Sign(signer.keypair.private_key, signer.data))
    /\ UNCHANGED <<software_keys, tpm_keys, deleter>>
    /\ RaceFrame

\* if self._tpm.is_available(): ... else raise KeyStorageError
SignDataTpmAvailable ==
    /\ signer.pc = "tpm_available"
    /\ IF tpm_available THEN signer' = [signer EXCEPT !.pc = "tpm_check"]
       ELSE SignerRaises(KeyStorageErr)
    /\ UNCHANGED <<software_keys, tpm_keys, deleter>>
    /\ RaceFrame

\* TPMStub.sign: if key_id not in self._keys: raise TPMError("... not
\* found ..."), which sign_data turns into KeyStorageError
SignDataTpmCheck ==
    /\ signer.pc = "tpm_check"
    /\ IF HasKey(tpm_keys, signer.key_id)
         THEN signer' = [signer EXCEPT !.pc = "tpm_sign"]
         ELSE SignerRaises(KeyStorageErr)
    /\ UNCHANGED <<software_keys, tpm_keys, deleter>>
    /\ RaceFrame

\* TPMStub.sign: signing_key = self._keys[key_id] and the signing, inside
\* its try block: a KeyError becomes a TPMError without "not found", which
\* sign_data turns into SigningError
SignDataTpmSign ==
    /\ signer.pc = "tpm_sign"
    /\ IF HasKey(tpm_keys, signer.key_id)
         THEN SignerReturns(TPMStub_sign(tpm_keys, signer.key_id,
                                         signer.data).sig)
         ELSE SignerRaises(SigningErr)
    /\ UNCHANGED <<software_keys, tpm_keys, deleter>>
    /\ RaceFrame

\* a thread enters crypto.delete_key(key_id)
DeleteKeyCall(key_id) ==
    /\ deleter.pc = "idle"
    /\ deleter' = [DeleterIdle EXCEPT !.pc = "check", !.key_id = key_id]
    /\ UNCHANGED <<software_keys, tpm_keys, signer>>
    /\ RaceFrame

\* if key_id in self._software_keys:
DeleteKeyCheck ==
    /\ deleter.pc = "check"
    /\ deleter' = [deleter EXCEPT
          !.pc = IF HasKey(software_keys, deleter.key_id) THEN "del"
                 ELSE "tpm_available"]
    /\ UNCHANGED <<software_keys, tpm_keys, signer>>
    /\ RaceFrame

\* del self._software_keys[key_id]; deleted = True
DeleteKeyDel ==
    /\ deleter.pc = "del"
    /\ software_keys' = DelKey(software_keys, deleter.key_id)
    /\ deleter' = [deleter EXCEPT !.pc = "tpm_available", !.deleted = TRUE]
    /\ UNCHANGED <<tpm_keys, signer>>
    /\ RaceFrame

\* if self._tpm.is_available():
DeleteKeyTpmAvailable ==
    /\ deleter.pc = "tpm_available"
    /\ deleter' = [deleter EXCEPT
          !.pc = IF tpm_available THEN "tpm_check" ELSE "done"]
    /\ UNCHANGED <<software_keys, tpm_keys, signer>>
    /\ RaceFrame

\* TPMStub.delete_key: if key_id in self._keys:
DeleteKeyTpmCheck ==
    /\ deleter.pc = "tpm_check"
    /\ deleter' = [deleter EXCEPT
          !.pc = IF HasKey(tpm_keys, deleter.key_id) THEN "tpm_del"
                 ELSE "done"]
    /\ UNCHANGED <<software_keys, tpm_keys, signer>>
    /\ RaceFrame

\* TPMStub.delete_key: del self._keys[key_id]; return True
DeleteKeyTpmDel ==
    /\ deleter.pc = "tpm_del"
    /\ tpm_keys' = DelKey(tpm_keys, deleter.key_id)
    /\ deleter' = [deleter EXCEPT !.pc = "done", !.deleted = TRUE]
    /\ UNCHANGED <<software_keys, signer>>
    /\ RaceFrame

\* Before the two threads start, keys are generated and the store is
\* switched by one caller.
RaceSetup ==
    /\ signer.pc = "idle"
    /\ deleter.pc = "idle"
    /\ \/ \E id \in KeyIds, st \in {"software", "tpm"} :
             GenerateKeypair(id, st)
       \/ \E b \in BOOLEAN : SetAvailable(b)

NextRace ==
    \/ RaceSetup
    \/ \E id \in KeyIds, d \in Datas : SignDataCall(id, d)
    \/ SignDataCheck
    \/ SignDataLookup
    \/ SignDataSoftwareSign
    \/ SignDataTpmAvailable
    \/ SignDataTpmCheck
    \/ SignDataTpmSign
    \/ \E id \in KeyIds : DeleteKeyCall(id)
    \/ DeleteKeyCheck
    \/ DeleteKeyDel
    \/ DeleteKeyTpmAvailable
    \/ DeleteKeyTpmCheck
    \/ DeleteKeyTpmDel

SpecRace == Idle /\ [][NextRace]_vars

\* ------------------------------------------------------------------------
\* The default manager of the module and the functions that use it, called
\* from several threads.  get_crypto_manager takes one step for its test of
\* the global, one for creating and assigning a manager, and one for
\* reading the global it returns.
\* ------------------------------------------------------------------------
\* How many managers the callers make themselves and pass to
\* set_crypto_manager.
MaxCustom == 1

QuickData == BytesV(5, "hello")
QuickKeyIds == {"k1"}

\* What quick_verify is called with: the public key bytes of the first key
\* generated, QuickData, and a signature over QuickData made by that key or
\* by the next one.
QuickPublicKey == KeyBytes(VerifyKeyOf(1))
QuickSignatures == {Ed25519Sign(1, QuickData), Ed25519Sign(2, QuickData)}

Manager(by, keys) == [by |-> by, software_keys |-> keys]

\* How many times set_crypto_manager has been called.
Sets == Cardinality({i \in 1..Len(managers) : managers[i].by = "set"})

DefaultFrame ==
    /\ UNCHANGED <<software_keys, tpm_keys, tpm_available, kres, held,
                   removed, signer, deleter>>
    /\ UNCHANGED msgvars

\* thread t enters get_crypto_manager(), quick_generate_keypair(key_id),
\* quick_sign(key_id, data) or quick_verify(public_key, data, signature);
\* the last three begin with get_crypto_manager()
EnterDefault(t, op, key_id, signature) ==
    /\ callers[t].pc \in {"idle", "done"}
    /\ op \in {"quick_generate_keypair", "quick_sign"} <=> key_id # ""
    /\ op = "quick_verify" <=> signature # NoSig
    /\ callers' = [callers EXCEPT ![t] =
          [CallerIdle EXCEPT
              !.pc = "check", !.op = op, !.key_id = key_id,
              !.signature = signature, !.sets = Sets,
              !.expected = (op = "quick_sign" /\ key_id \in quick_keys)]]
    /\ UNCHANGED <<default_crypto_manager, managers, quick_keys, generated>>
    /\ DefaultFrame

\* if _default_crypto_manager is None:
GetCheck(t) ==
    /\ callers[t].pc = "check"
    /\ callers' = [callers EXCEPT ![t].pc =
          IF default_crypto_manager = 0 THEN "create" ELSE "return"]
    /\ UNCHANGED <<default_crypto_manager, managers, quick_keys, generated>>
    /\ DefaultFrame

\* _default_crypto_manager = CryptoManager()
GetCreate(t) ==
    /\ callers[t].pc = "create"
    /\ managers' = Append(managers, Manager("get", <<>>))
    /\ default_crypto_manager' = Len(managers) + 1
    /\ callers' = [callers EXCEPT ![t].pc = "return"]
    /\ UNCHANGED <<quick_keys, generated>>
    /\ DefaultFrame

\* return _default_crypto_manager
GetReturn(t) ==
    /\ callers[t].pc = "return"
    /\ callers' = [callers EXCEPT
          ![t].manager = default_crypto_manager,
          ![t].pc = IF callers[t].op = "get_crypto_manager" THEN "done"
                    ELSE "use"]
    /\ UNCHANGED <<default_crypto_manager, managers, quick_keys, generated>>
    /\ DefaultFrame

\* quick_generate_keypair: <manager>.generate_keypair(key_id, "software")
\* as far as signing_key = nacl.signing.SigningKey.generate(); the key is
\* local to the thread until it is stored.
QuickGenerate(t) ==
    /\ callers[t].pc = "use"
    /\ callers[t].op = "quick_generate_keypair"
    /\ generated < MaxGenerated
    /\ callers' = [callers EXCEPT ![t].pc = "store",
                                  ![t].signing_key = generated + 1]
    /\ generated' = generated + 1
    /\ UNCHANGED <<default_crypto_manager, managers, quick_keys>>
    /\ DefaultFrame

\* self._software_keys[key_id] = keypair, and the return of the call
QuickStore(t) ==
    /\ callers[t].pc = "store"
    /\ LET m == callers[t].manager
           r == generate_software_keypair(managers[m].software_keys, <<>>,
                                          callers[t].key_id,
                                          callers[t].signing_key)
       IN /\ managers' = [managers EXCEPT ![m].software_keys = r.sw]
          /\ callers' = [callers EXCEPT ![t].pc = "done", ![t].err = r.err]
    /\ quick_keys' = IF callers[t].sets = Sets
                     THEN quick_keys \cup {callers[t].key_id}
                     ELSE quick_keys
    /\ UNCHANGED <<default_crypto_manager, generated>>
    /\ DefaultFrame

\* quick_sign: <manager>.sign_data(key_id, data)
QuickSign(t) ==
    /\ callers[t].pc = "use"
    /\ callers[t].op = "quick_sign"
    /\ LET m == callers[t].manager
           r == sign_data(managers[m].software_keys, <<>>, TRUE,
                          callers[t].key_id, QuickData)
       IN callers' = [callers EXCEPT ![t].pc = "done", ![t].err = r.err]
    /\ UNCHANGED <<default_crypto_manager, managers, quick_keys, generated>>
    /\ DefaultFrame

\* quick_verify: <manager>.verify_signature(public_key, data, signature)
QuickVerify(t) ==
    /\ callers[t].pc = "use"
    /\ callers[t].op = "quick_verify"
    /\ LET r == CryptoManager_verify_signature(QuickPublicKey, QuickData,
                                               callers[t].signature)
       IN callers' = [callers EXCEPT ![t].pc = "done", ![t].err = r.err,
                                     ![t].value = r.value]
    /\ UNCHANGED <<default_crypto_manager, managers, quick_keys, generated>>
    /\ DefaultFrame

\* set_crypto_manager(CryptoManager())
SetCryptoManager(t) ==
    /\ callers[t].pc \in {"idle", "done"}
    /\ Sets < MaxCustom
    /\ managers' = Append(managers, Manager("set", <<>>))
    /\ default_crypto_manager' = Len(managers) + 1
    /\ callers' = [callers EXCEPT ![t] =
          [CallerIdle EXCEPT !.pc = "done", !.op = "set_crypto_manager",
                             !.manager = Len(managers) + 1,
                             !.sets = Sets + 1]]
    /\ quick_keys' = {}
    /\ UNCHANGED generated
    /\ DefaultFrame

NextDefault ==
    \/ \E t \in Threads : EnterDefault(t, "get_crypto_manager", "", NoSig)
    \/ \E t \in Threads, id \in QuickKeyIds :
          EnterDefault(t, "quick_generate_keypair", id, NoSig)
    \/ \E t \in Threads, id \in QuickKeyIds :
          EnterDefault(t, "quick_sign", id, NoSig)
    \/ \E t \in Threads, s \in QuickSignatures :
          EnterDefault(t, "quick_verify", "", s)
    \/ \E t \in Threads : GetCheck(t)
    \/ \E t \in Threads : GetCreate(t)
    \/ \E t \in Threads : GetReturn(t)
    \/ \E t \in Threads : QuickGenerate(t)
    \/ \E t \in Threads : QuickStore(t)
    \/ \E t \in Threads : QuickSign(t)
    \/ \E t \in Threads : QuickVerify(t)
    \/ \E t \in Threads : SetCryptoManager(t)

SpecDefault == Idle /\ [][NextDefault]_vars

\* ------------------------------------------------------------------------
\* Properties
\* ------------------------------------------------------------------------
\* The last operation decoded the encoding of a message with that
\* message's own class.
DecodedOwnCbor == res.op = "from_cbor" /\ wsrc # NoMsg /\ res.cls = wsrc.kind
DecodedOwnDict == res.op = "from_dict" /\ dsrc # NoMsg /\ res.cls = dsrc.kind

\* C1: round trip.  K.from_cbor(m.to_cbor()) and K.from_dict(m.to_dict())
\* return a message equal to m, for every message m construction accepts.
C1_RoundTrip ==
    /\ DecodedOwnCbor => (res.err = "none" /\ MsgEq(msg, wsrc))
    /\ DecodedOwnDict => (res.err = "none" /\ MsgEq(msg, dsrc))

\* The per-type table: the fields a kind requires.
RequiredFields(K) ==
    CASE K = "ConnectRequest" -> {"client_id", "client_pubkey", "nonce"}
      [] K = "ConnectResponse" -> {"session_id", "server_pubkey",
                                   "status_code"}
      [] K = "GenericMessage" -> {"sequence_number", "payload"}
      [] K = "ResumeRequest" -> {"client_id", "last_sequence_number",
                                 "client_nonce"}
      [] K = "ResumeResponse" -> {"session_id", "resume_sequence",
                                  "server_nonce"}
      [] K = "BatchMessage" -> {"batch_id", "total_count", "messages"}
      [] K = "HeartbeatMessage" -> {"heartbeat_id", "client_sequence",
                                    "server_sequence"}
      [] K = "CloseMessage" -> {"reason"}
      [] K = "AckMessage" -> {"ack_sequence", "ack_type"}
      [] K = "ErrorMessage" -> {"error_message", "severity"}

\* The kind of value a field is declared to hold, for the fields the
\* per-type table constrains.
BytesFields == {"client_pubkey", "server_pubkey", "ephemeral_pubkey", "nonce",
                "client_nonce", "server_nonce", "payload"}
ListFields == {"capabilities", "messages"}
SequenceFields == {"sequence_number", "last_sequence_number",
                   "resume_sequence", "client_sequence", "server_sequence",
                   "final_sequence", "ack_sequence", "total_count"}
IdentifierFields == {"client_id", "session_id", "batch_id", "heartbeat_id",
                     "message_id", "reason"}
OptionalFields == {"message_id", "timestamp", "key_storage",
                   "ephemeral_pubkey", "final_sequence", "details"}

RightKind(fld, v) ==
    \/ fld \in OptionalFields /\ v = NoneV
    \/ fld \in BytesFields /\ v.t = "bytes"
    \/ fld \in ListFields /\ v.t = "list"
    \/ fld \in SequenceFields /\ IsNumeric(v)
    \/ fld \in IdentifierFields /\ v.t = "str"
    \/ fld \notin BytesFields \cup ListFields \cup SequenceFields
                    \cup IdentifierFields

WellKinded(m) == \A fld \in FieldSet(m.kind) : RightKind(fld, m.f[fld])

\* The per-type table: the invariants of an instance of each kind.
TableInvariant(m) ==
    LET f == m.f
    IN /\ f["version"] = StrV("CPOR-2")
       /\ f["type"] = StrV(Discriminant(m.kind))
       /\ WellKinded(m)
       /\ \A fld \in FieldSet(m.kind) :
            /\ fld \in {"client_pubkey", "server_pubkey", "ephemeral_pubkey"}
                 /\ f[fld] # NoneV => f[fld].n = 32
            /\ fld \in {"nonce", "client_nonce", "server_nonce"}
                 => f[fld].n >= 16
            /\ fld \in SequenceFields /\ f[fld] # NoneV /\ fld # "total_count"
                 => f[fld].n >= 0
            /\ fld \in {"client_id", "session_id", "batch_id",
                        "heartbeat_id", "reason"} => f[fld].n > 0
       /\ m.kind = "ConnectRequest" =>
            f["key_storage"] \in {NoneV, StrV("tpm"), StrV("software")}
       /\ m.kind = "ConnectResponse" =>
            /\ f["max_message_size"].n > 0
            /\ ~PyEq(f["status_code"], IntV(0)) => Truthy(f["error_message"])
       /\ m.kind = "GenericMessage" => Truthy(f["message_type"])
       /\ m.kind = "ResumeResponse" =>
            (~Truthy(f["resume_accepted"]) => Truthy(f["error_message"]))
       /\ m.kind = "BatchMessage" =>
            f["total_count"].n > 0 /\ f["messages"].n <= f["total_count"].n
       /\ m.kind = "AckMessage" =>
            InStrList(f["ack_type"], {"message", "heartbeat", "batch"})
       /\ m.kind = "ErrorMessage" =>
            /\ Truthy(f["error_message"])
            /\ InStrList(f["severity"], {"warning", "error", "fatal"})

\* The last operation was an entry point applied to a mapping: keyword
\* arguments that are all fields of the class, or decoded data.
BuiltFromMapping ==
    \/ res.op = "construct"
         /\ \A k \in DictKeys(dict) : k.s \in FieldSet(res.cls)
    \/ res.op = "from_dict"
    \/ res.op \in {"from_cbor", "parse_message"}
         /\ wire.valid /\ wire.item.t = "dict"

\* C2: an entry point returns a message that has version "CPOR-2", its own
\* discriminant and every per-type invariant of its kind, or it fails with
\* InvalidMessageError and returns no instance.
C2_ValidOrInvalidMessage ==
    BuiltFromMapping =>
        \/ res.err = "none" /\ msg # NoMsg /\ TableInvariant(msg)
        \/ res.err = Invalid /\ msg = NoMsg

\* C3: parse_message(m.to_cbor()) is an instance of m's class equal to m.
C3_ParseOwnEncoding ==
    (res.op = "parse_message" /\ wsrc # NoMsg) =>
        /\ res.err = "none"
        /\ msg.kind = wsrc.kind
        /\ MsgEq(msg, wsrc)

\* The frame parsed is a mapping with a discriminant field.
HasDiscriminant == wire.valid /\ wire.item.t = "dict" /\ DictHas(wire.item, "type")
NoDiscriminant == wire.valid /\ wire.item.t = "dict" /\ ~DictHas(wire.item, "type")

\* C4: with a discriminant field present only the table decides: a value
\* outside it fails with InvalidMessageError "Unknown message type", and the
\* structural fallback is not applied.
C4_UnknownDiscriminant ==
    (res.op = "parse_message" /\ HasDiscriminant) =>
        /\ res.via # "fallback"
        /\ ~TypeMappingHas(DictGet(wire.item, "type")) =>
             (res.err = Invalid /\ res.text = UnknownType /\ msg = NoMsg)

\* The fixed order of the structural fallback.
FallbackOrder ==
    <<"ConnectRequest", "ConnectResponse", "GenericMessage", "ResumeRequest",
      "ResumeResponse", "BatchMessage", "HeartbeatMessage", "CloseMessage",
      "AckMessage", "ErrorMessage">>
Matching == {i \in 1..Len(FallbackOrder) : StructuralPredicate(i, wire.item)}

\* C5: for a mapping without a discriminant the kind chosen is that of the
\* earliest matching predicate in the fixed order; with no matching
\* predicate parse_message fails with InvalidMessageError "Cannot determine
\* message type".
C5_FirstMatchWins ==
    (res.op = "parse_message" /\ NoDiscriminant) =>
        /\ res.via = "fallback"
        /\ Matching # {} =>
             /\ res.kind \in KindSet
             /\ \E i \in Matching :
                  /\ FallbackOrder[i] = res.kind
                  /\ \A j \in Matching : i <= j
        /\ Matching = {} =>
             (res.err = Invalid /\ res.text = CannotDetermine /\ msg = NoMsg)

\* A mapping without discriminant that satisfies two predicates, the
\* second (session_id, accepted and a server key) and the fifth
\* (status_code and server_nonce), was parsed.
C5_Witness ==
    /\ res.op = "parse_message" /\ NoDiscriminant
    /\ Matching = {2, 5}
    /\ res.kind = "ConnectResponse"

\* C6: parse_message fails with SerializationError exactly for bytes that
\* are not CBOR or not a mapping; for a mapping it returns a message or
\* fails with InvalidMessageError; a failure returns no message.
C6_ParseErrors ==
    res.op = "parse_message" =>
        /\ (~wire.valid \/ wire.item.t # "dict") =>
             (res.err = SerErr /\ msg = NoMsg)
        /\ (wire.valid /\ wire.item.t = "dict") =>
             res.err \in {"none", Invalid}
        /\ res.err # "none" => msg = NoMsg

\* C7: decoding a mapping that omits a required field of its kind fails
\* with InvalidMessageError.
C7_MissingRequiredField ==
    /\ (res.op = "from_dict" /\ dsrc = NoMsg
          /\ \E fld \in RequiredFields(res.cls) : ~DictHas(dict, fld))
         => (res.err = Invalid /\ msg = NoMsg)
    /\ (res.op = "parse_message" /\ res.kind \in KindSet
          /\ \E fld \in RequiredFields(res.kind) : ~DictHas(wire.item, fld))
         => (res.err = Invalid /\ msg = NoMsg)

\* C8: construction, direct or via from_dict, ends with a message or with
\* InvalidMessageError, and a message never holds a value of the wrong kind.
C8_WrongKindRejected ==
    (BuiltFromMapping /\ res.op \in {"construct", "from_dict"}) =>
        /\ res.err \in {"none", Invalid}
        /\ res.err = "none" => WellKinded(msg)

\* The last operation verified the signature made, under a real key.
VerifiedSig ==
    /\ res.op = "verify_signature"
    /\ res.arg = sig
    /\ res.key \in SigningKeys

\* C9: a signature is 64 bytes and verifies on the message and under the key
\* it was made with; under another key, or on a message whose fields
\* differ, verification returns False and raises nothing.
C9_SignatureCorrectness ==
    /\ sig # NoSig => sig.n = 64
    /\ VerifiedSig =>
         /\ res.err = "none"
         /\ res.value = IF res.key = signed.key /\ MsgEq(msg, signed.msg)
                          THEN "True" ELSE "False"

\* C10 as stated: verification with a truncated signature returns False
\* and raises nothing.
C10_TruncatedReturnsFalse ==
    (res.op = "verify_signature" /\ res.key \in SigningKeys
       /\ res.arg.n < SignatureBytes)
      => (res.err = "none" /\ res.value = "False")

\* C10, amended: verification with a truncated signature raises
\* SignatureError and returns no boolean.
C10_TruncatedRaises ==
    (res.op = "verify_signature" /\ res.key \in SigningKeys
       /\ res.arg.n < SignatureBytes)
      => (res.err = SigErr /\ res.value = "")

\* A truncation of a signature that verifies in full was verified.
C10_Witness ==
    /\ res.op = "verify_signature"
    /\ res.arg = Truncated(sig)
    /\ res.key = signed.key
    /\ MsgEq(msg, signed.msg)
    /\ res.err = SigErr

\* ------------------------------------------------------------------------
\* Properties of the key stores (checked under SpecKeys)
\* ------------------------------------------------------------------------
Listed(key_id) ==
    \E i \in 1..Len(list_keys(software_keys, tpm_keys)) :
        list_keys(software_keys, tpm_keys)[i] = key_id

FellBack ==
    /\ kres.op = "generate_keypair"
    /\ kres.storage_type = "tpm"
    /\ ~tpm_available

\* C11: generate_keypair(id, "tpm") while the hardware store reports
\* unavailable does not fail: it returns a KeyPair whose storage is
\* "software", the id is listed by list_keys, and sign_data(id, d) gives,
\* with no hardware store at all, a signature that verifies under the
\* returned public key.
C11_TpmFallback ==
    FellBack =>
        /\ kres.err = "none"
        /\ kres.kp.key_id = kres.key_id
        /\ kres.kp.storage_type = "software"
        /\ Listed(kres.key_id)
        /\ \A d \in Datas :
              LET r == sign_data(software_keys, <<>>, FALSE, kres.key_id, d)
              IN /\ r.err = "none"
                 /\ CryptoManager_verify_signature(
                        public_key_bytes(kres.kp), d, r.sig).value = "True"

\* The fallback happened for an id the hardware store already holds.
C11_Witness ==
    /\ FellBack
    /\ kres.had_tpm
    /\ kres.kp.storage_type = "software"

\* C12: after generate_keypair(id, storage) returned kp, whatever keystore
\* operations came before, sign_data(id, d) returns a 64-byte signature
\* that verifies under kp.public_key for d and for no other data, as long
\* as id was not deleted or generated again and the hardware store stayed
\* available.
C12_SignThenVerify ==
    (kres.op = "sign_data" /\ held[kres.key_id] # NoKeyPair) =>
        /\ kres.err = "none"
        /\ kres.sig.n = SignatureBytes
        /\ \A d \in Datas :
              CryptoManager_verify_signature(
                  public_key_bytes(held[kres.key_id]), d, kres.sig).value
              = IF d = kres.data THEN "True" ELSE "False"

\* C13: sign_data(id, d) signs with the software key when the software
\* keystore has id (also when the pluggable store has it too), with the
\* key of the pluggable store only otherwise; it fails with KeyStorage when
\* id is in neither store, and a failing call returns no signature.
C13_SignDataLookup ==
    kres.op = "sign_data" =>
        /\ kres.had_sw =>
              /\ kres.err = "none"
              /\ kres.sig = Ed25519Sign(
                     GetKey(software_keys, kres.key_id).private_key,
                     kres.data)
        /\ (~kres.had_sw /\ kres.had_tpm /\ tpm_available) =>
              /\ kres.err = "none"
              /\ kres.sig = Ed25519Sign(
                     GetKey(tpm_keys, kres.key_id).signing_key, kres.data)
        /\ (~kres.had_sw /\ ~kres.had_tpm) => kres.err = KeyStorageErr
        /\ kres.err # "none" => kres.sig = NoSig

\* sign_data was called for an id both stores hold, the store available.
C13_Witness ==
    /\ kres.op = "sign_data"
    /\ kres.had_sw
    /\ kres.had_tpm
    /\ tpm_available
    /\ kres.err = "none"

\* C14: delete_key(id) returns true exactly when id was removed from at
\* least one store; after a call that returned true, until id is generated
\* again, get_keypair(id) is None, sign_data(id, d) fails with KeyStorage
\* and another delete_key(id) returns false; delete_key on an id neither
\* store holds returns false and changes nothing.
C14_DeleteKey ==
    /\ kres.op = "delete_key" =>
          (kres.value = "True" <=>
              \/ kres.had_sw /\ ~HasKey(software_keys, kres.key_id)
              \/ kres.had_tpm /\ ~HasKey(tpm_keys, kres.key_id))
    /\ \A id \in removed :
          /\ get_keypair(software_keys, tpm_keys, tpm_available, id)
             = NoKeyPair
          /\ \A d \in Datas :
                sign_data(software_keys, tpm_keys, tpm_available, id, d).err
                = KeyStorageErr
          /\ ~delete_key(software_keys, tpm_keys, tpm_available, id).value
    /\ \A id \in KeyIds :
          (~HasKey(software_keys, id) /\ ~HasKey(tpm_keys, id)) =>
              LET r == delete_key(software_keys, tpm_keys, tpm_available, id)
              IN ~r.value /\ r.sw = software_keys /\ r.tpm = tpm_keys

Count(keys, key_id) == Cardinality({i \in 1..Len(keys) : keys[i] = key_id})

\* C15: list_keys() returns exactly the identifiers in the software
\* keystore, each once, and never an id that only the hardware-backed store
\* holds; so an id generate_keypair stored in software is listed and one it
\* stored in hardware only is not.
C15_ListKeys ==
    /\ kres.op = "list_keys" =>
          \A id \in KeyIds :
              /\ Count(kres.keys, id)
                 = IF HasKey(software_keys, id) THEN 1 ELSE 0
              /\ (HasKey(tpm_keys, id) /\ ~HasKey(software_keys, id))
                    => Count(kres.keys, id) = 0
    /\ (kres.op = "generate_keypair" /\ kres.err = "none") =>
          /\ kres.kp.storage_type = "software" => Listed(kres.key_id)
          /\ (kres.kp.storage_type = "tpm" /\ ~kres.had_sw)
                => ~Listed(kres.key_id)

\* list_keys() was called with one id in the software keystore and another
\* in the hardware-backed store only.
C15_Witness ==
    /\ kres.op = "list_keys"
    /\ Len(kres.keys) = 1
    /\ \E id \in KeyIds :
          HasKey(tpm_keys, id) /\ ~HasKey(software_keys, id)

\* C16: in the pluggable store, generate_key(id) for an existing id fails
\* with TPMError and leaves the key stored for id as it was; sign(id, d)
\* and get_public_key(id) for an id the store does not hold fail with
\* TPMError; delete_key(id) returns true for an existing id and false
\* otherwise.
C16_PluggableStore ==
    /\ (kres.op = "tpm.generate_key" /\ kres.had_tpm) =>
          /\ kres.err = TPMErr
          /\ HasKey(tpm_keys, kres.key_id)
          /\ GetKey(tpm_keys, kres.key_id).signing_key = kres.old_key
    /\ (kres.op \in {"tpm.sign", "tpm.get_public_key"} /\ ~kres.had_tpm) =>
          /\ kres.err = TPMErr
          /\ kres.sig = NoSig
          /\ kres.pub = NoPublicKey
    /\ kres.op = "tpm.delete_key" =>
          /\ kres.value = IF kres.had_tpm THEN "True" ELSE "False"
          /\ ~HasKey(tpm_keys, kres.key_id)

\* generate_key was called for an id the store holds.
C16_Witness ==
    /\ kres.op = "tpm.generate_key"
    /\ kres.had_tpm
    /\ kres.err = TPMErr

TpmSeeds == {tpm_keys[i].signing_key : i \in 1..Len(tpm_keys)}

Opaque(kp) ==
    /\ private_key_bytes(kp).err = KeyStorageErr
    /\ kp.private_key \notin TpmSeeds
    /\ kp.public_key.form = "VerifyKey"

\* C17: for every KeyPair with storage "tpm" that generate_keypair or
\* get_keypair returns, reading private_key_bytes fails with KeyStorage
\* and no field of the KeyPair holds a private key of the hardware store.
C17_TpmKeyOpaque ==
    /\ (kres.op \in {"generate_keypair", "get_keypair", "private_key_bytes"}
        /\ kres.kp.storage_type = "tpm") =>
          /\ Opaque(kres.kp)
          /\ kres.op = "private_key_bytes" =>
                /\ kres.err = KeyStorageErr
                /\ kres.priv.seed \notin TpmSeeds
    /\ \A id \in KeyIds : held[id].storage_type = "tpm" => Opaque(held[id])

\* private_key_bytes was read from a "tpm" KeyPair get_keypair returned.
C17_Witness ==
    /\ kres.op = "private_key_bytes"
    /\ kres.had_tpm
    /\ kres.kp.storage_type = "tpm"
    /\ kres.err = KeyStorageErr
    /\ HasKey(tpm_keys, kres.kp.key_id)

\* ------------------------------------------------------------------------
\* Properties of verify_signature (checked under SpecVerify)
\* ------------------------------------------------------------------------
OtherForm(public_key) ==
    IF public_key.form = "VerifyKey" THEN KeyBytes(public_key)
    ELSE NaclVerifyKey(public_key)

Matches(public_key, data, signature) ==
    /\ signature.n = SignatureBytes
    /\ signature.key = public_key.key
    /\ signature.body = data

\* C18: CryptoManager.verify_signature gives the same result for a raw
\* 32-byte public key and for the key object parsed from it; a public key
\* that is not 32 bytes or a signature that is not 64 bytes fails with
\* Verification; a 64-byte signature that does not match the data and the
\* 32-byte key returns false.
C18_VerifySignature ==
    kres.op = "verify_signature" =>
        LET pk == kres.public_key
            well_formed == /\ pk.form \in {"bytes", "bytearray",
                                           "memoryview", "VerifyKey"}
                           /\ pk.n = PublicKeyBytes
                           /\ kres.signature.n = SignatureBytes
        IN /\ (pk.form \in {"bytes", "VerifyKey"} /\ pk.n = PublicKeyBytes) =>
                 CryptoManager_verify_signature(OtherForm(pk), kres.data,
                                                kres.signature)
                 = [err |-> kres.err, value |-> kres.value]
           /\ (pk.n # PublicKeyBytes \/ kres.signature.n # SignatureBytes) =>
                 kres.err = VerificationErr
           /\ (well_formed /\ ~Matches(pk, kres.data, kres.signature)) =>
                 kres.err = "none" /\ kres.value = "False"
           /\ (well_formed /\ Matches(pk, kres.data, kres.signature)) =>
                 kres.err = "none" /\ kres.value = "True"

\* A key object and a signature one byte short: Verification.
C18_Witness ==
    /\ kres.op = "verify_signature"
    /\ kres.public_key.form = "VerifyKey"
    /\ kres.signature.n = SignatureBytes - 1
    /\ kres.err = VerificationErr

\* ------------------------------------------------------------------------
\* Further properties of the messages (checked under Spec)
\* ------------------------------------------------------------------------
\* The mapping d holds exactly the fields of m that are not None, with the
\* values `carried` makes of them, and no null value.
ExactlySetFields(d, m, carried(_)) ==
    /\ d.t = "dict"
    /\ DictKeys(d) \subseteq {StrV(fld) : fld \in FieldSet(m.kind)}
    /\ \A fld \in FieldSet(m.kind) :
          /\ DictHas(d, fld) <=> m.f[fld] # NoneV
          /\ DictHas(d, fld) => DictGet(d, fld) = carried(m.f[fld])
    /\ \A i \in 1..d.n : d.items[i].items[2] # NoneV
    /\ DictHas(d, "version")
    /\ DictHas(d, "type")

SameValue(v) == v

\* C19: the mapping to_dict returns, and the one to_cbor encodes, contains
\* exactly the fields whose value is not None: an unset field is absent
\* rather than present with a null value, and every other field, version
\* and the discriminant included, is present.
C19_UnsetOmitted ==
    /\ res.op = "to_dict" => ExactlySetFields(dict, dsrc, SameValue)
    /\ res.op = "to_cbor" =>
          wire.valid /\ ExactlySetFields(wire.item, wsrc, CborItem)

\* to_dict left out an unset field that has a value by default.
C19_Witness ==
    /\ res.op = "to_dict"
    /\ dsrc.kind = "GenericMessage"
    /\ dsrc.f["priority"] = NoneV
    /\ ~DictHas(dict, "priority")
    /\ DictHas(dict, "payload")

\* The field values K(**kwargs) is called with.
Attempted(K, kwargs) ==
    [fld \in FieldSet(K) |->
        IF DictHas(kwargs, fld) THEN DictGet(kwargs, fld)
        ELSE Default(K, fld)]

NeedsErrorMessage(K, f) ==
    \/ K = "ConnectResponse" /\ ~PyEq(f["status_code"], IntV(0))
    \/ K = "ResumeResponse" /\ PyEq(f["resume_accepted"], BoolV(FALSE))

\* K(**kwargs) was called with keywords that are fields of K and values
\* that construct a K once a non-empty error_message is supplied, but with
\* no error_message of its own.
LacksOnlyErrorMessage ==
    /\ res.op = "construct"
    /\ res.cls \in {"ConnectResponse", "ResumeResponse"}
    /\ DictKeys(dict) \subseteq {StrV(fld) : fld \in FieldSet(res.cls)}
    /\ NeedsErrorMessage(res.cls, Attempted(res.cls, dict))
    /\ ~Truthy(Attempted(res.cls, dict)["error_message"])
    /\ New(res.cls, DictSet(dict, "error_message", StrV("refused"))).err
       = "none"

\* C20: a ConnectResponse with status_code different from 0 and a
\* ResumeResponse with resume_accepted = false exist only with a non-empty
\* error_message; constructing one without it (from values that are
\* accepted with one) fails with InvalidMessage and gives no instance.
C20_ErrorMessageRequired ==
    /\ (msg # NoMsg /\ NeedsErrorMessage(msg.kind, msg.f)) =>
          Truthy(msg.f["error_message"])
    /\ LacksOnlyErrorMessage => (res.err = Invalid /\ msg = NoMsg)

\* ConnectResponse(status_code=1) with no error_message was refused.
C20_Witness ==
    /\ LacksOnlyErrorMessage
    /\ res.cls = "ConnectResponse"
    /\ DictHas(dict, "status_code")
    /\ DictGet(dict, "status_code") = IntV(1)
    /\ res.err = Invalid

\* ------------------------------------------------------------------------
\* Batch counts.
\* ------------------------------------------------------------------------

\* The last call tried to make a BatchMessage: by its constructor with
\* keywords that are fields, or by decoding a mapping.
BatchCall ==
    \/ /\ res.op = "construct"
       /\ res.cls = "BatchMessage"
       /\ DictKeys(dict) \subseteq {StrV(fld) : fld \in FieldSet("BatchMessage")}
    \/ res.op = "from_dict" /\ res.cls = "BatchMessage"
    \/ /\ res.op = "from_cbor"
       /\ res.cls = "BatchMessage"
       /\ wire.valid
       /\ wire.item.t = "dict"
    \/ res.op = "parse_message" /\ res.kind = "BatchMessage"

\* The field values that call made it of.
BatchValues ==
    IF res.op \in {"construct", "from_dict"}
    THEN Attempted("BatchMessage", dict)
    ELSE Attempted("BatchMessage", wire.item)

NonPositiveCount(f) ==
    IsNumeric(f["total_count"]) /\ f["total_count"].n <= 0

TooManyMessages(f) ==
    /\ IsNumeric(f["total_count"])
    /\ IsSized(f["messages"])
    /\ f["messages"].n > f["total_count"].n

\* C21: every BatchMessage has total_count > 0 and at most total_count
\* sub-messages; constructing or decoding one with total_count <= 0 or with
\* more sub-messages than total_count fails with InvalidMessage and gives
\* no instance.
C21_BatchCounts ==
    /\ (msg # NoMsg /\ msg.kind = "BatchMessage") =>
          /\ IsNumeric(msg.f["total_count"])
          /\ msg.f["total_count"].n > 0
          /\ IsSized(msg.f["messages"])
          /\ msg.f["messages"].n <= msg.f["total_count"].n
    /\ (BatchCall /\ (NonPositiveCount(BatchValues)
                        \/ TooManyMessages(BatchValues))) =>
          (res.err = Invalid /\ msg = NoMsg)

\* A frame carrying three sub-messages with total_count 2 was refused by
\* parse_message.
C21_Witness ==
    /\ BatchCall
    /\ res.op = "parse_message"
    /\ TooManyMessages(BatchValues)
    /\ BatchValues["total_count"] = IntV(2)
    /\ res.err = Invalid
    /\ msg = NoMsg

\* ------------------------------------------------------------------------
\* Lengths of keys and nonces.
\* ------------------------------------------------------------------------

PublicKeyFields ==
    {<<"ConnectRequest", "client_pubkey">>,
     <<"ConnectResponse", "server_pubkey">>,
     <<"ConnectResponse", "ephemeral_pubkey">>}

NonceFields ==
    {<<"ConnectRequest", "nonce">>,
     <<"ResumeRequest", "client_nonce">>,
     <<"ResumeResponse", "server_nonce">>}

\* The last call tried to make a K: by its constructor with keywords that
\* are fields, or by decoding a mapping.
MadeCall(K) ==
    \/ /\ res.op = "construct"
       /\ res.cls = K
       /\ DictKeys(dict) \subseteq {StrV(fld) : fld \in FieldSet(K)}
    \/ res.op = "from_dict" /\ res.cls = K
    \/ /\ res.op = "from_cbor"
       /\ res.cls = K
       /\ wire.valid
       /\ wire.item.t = "dict"
    \/ res.op = "parse_message" /\ res.kind = K

\* The mapping that call made it of.
CallInput == IF res.op \in {"construct", "from_dict"} THEN dict ELSE wire.item

\* The call gives field fld a sized value whose length bad(_) rejects, and
\* gives the other fields values that are accepted together with good.
WrongLength(K, fld, bad(_), good) ==
    /\ MadeCall(K)
    /\ LET v == Attempted(K, CallInput)[fld]
       IN IsSized(v) /\ bad(v.n)
    /\ from_dict(K, DictSet(CallInput, fld, good)).err = "none"

Not32(n) == n # 32
Below16(n) == n < 16

\* C22: in every message, each public-key field (client_pubkey,
\* server_pubkey, and ephemeral_pubkey when it is not None) has length 32
\* and each nonce field (nonce, client_nonce, server_nonce) has length at
\* least 16; constructing or decoding a message with a key or nonce of
\* another length fails with InvalidMessage and gives no instance.
C22_KeyAndNonceLengths ==
    /\ \A p \in PublicKeyFields :
          (msg # NoMsg /\ msg.kind = p[1]) =>
             \/ p[2] = "ephemeral_pubkey" /\ msg.f[p[2]] = NoneV
             \/ IsSized(msg.f[p[2]]) /\ msg.f[p[2]].n = 32
    /\ \A p \in NonceFields :
          (msg # NoMsg /\ msg.kind = p[1]) =>
             (IsSized(msg.f[p[2]]) /\ msg.f[p[2]].n >= 16)
    /\ \A p \in PublicKeyFields :
          WrongLength(p[1], p[2], Not32, Key32) =>
             (res.err = Invalid /\ msg = NoMsg)
    /\ \A p \in NonceFields :
          WrongLength(p[1], p[2], Below16, Nonce16) =>
             (res.err = Invalid /\ msg = NoMsg)

\* ConnectRequest(..., nonce=<5 bytes>) was refused.
C22_Witness ==
    /\ WrongLength("ConnectRequest", "nonce", Below16, Nonce16)
    /\ res.op = "construct"
    /\ DictHas(dict, "nonce")
    /\ DictGet(dict, "nonce") = BytesV(5, "short")
    /\ res.err = Invalid
    /\ msg = NoMsg

\* ------------------------------------------------------------------------
\* Signatures across the wire (checked under SpecSig)
\* ------------------------------------------------------------------------

\* The message signed with signed.key was encoded, the frame was decoded
\* by parse_message, and the signature is verified on the decoded message
\* under the key it was made with.
VerifiedOnDecoded ==
    /\ res.op = "verify_signature"
    /\ signed.msg # NoMsg
    /\ wsrc = signed.msg
    /\ wire = to_cbor(signed.msg)
    /\ parse_message(wire).err = "none"
    /\ msg = parse_message(wire).msg
    /\ res.arg = sign(signed.msg, signed.key).sig
    /\ res.key = signed.key

\* C24: for every message m and key k,
\* parse_message(m.to_cbor()).verify_signature(m.sign(k), k's public key)
\* is True.
C24_DecodedVerifies ==
    VerifiedOnDecoded => (res.err = "none" /\ res.value = "True")

\* ------------------------------------------------------------------------
\* Messages without a discriminant (checked under Spec)
\* ------------------------------------------------------------------------

\* C30: for every message m, m.to_dict() without its "type" key is
\* resolved by the structural fallback to the kind of m, whatever optional
\* fields (timestamp, message_id) m has set.
C30_LegacyResolvesOwnKind ==
    res.op = "infer_message_type" =>
        /\ res.err = "none"
        /\ res.via = "fallback"
        /\ res.kind = dsrc.kind

\* ------------------------------------------------------------------------
\* Further properties of the key stores (checked under SpecKeys)
\* ------------------------------------------------------------------------

\* sign_data(key_id, d) has the outcome r that goes with get_keypair(key_id)
\* having returned kp.
Agree(kp, d, r) ==
    IF kp # NoKeyPair
    THEN /\ r.err = "none"
         /\ CryptoManager_verify_signature(kp.public_key, d, r.sig).value
            = "True"
    ELSE r.err = KeyStorageErr /\ r.sig = NoSig

\* C26: get_keypair(id) and sign_data(id, d) agree on which key belongs to
\* id: when get_keypair returns a KeyPair, sign_data succeeds and its
\* signature verifies under that KeyPair's public key; when get_keypair
\* returns None, sign_data fails with KeyStorage; a software key with the
\* same id as a hardware key is the one both use.
C26_GetAndSignAgree ==
    /\ kres.op = "get_keypair" =>
          \A d \in Datas :
              Agree(kres.kp, d,
                    sign_data(software_keys, tpm_keys, tpm_available,
                              kres.key_id, d))
    /\ kres.op = "sign_data" =>
          Agree(get_keypair(software_keys, tpm_keys, tpm_available,
                            kres.key_id),
                kres.data, [err |-> kres.err, sig |-> kres.sig])
    /\ (kres.op = "get_keypair" /\ kres.had_sw) =>
          kres.kp = GetKey(software_keys, kres.key_id)
    /\ (kres.op = "sign_data" /\ kres.had_sw) =>
          kres.sig = Ed25519Sign(GetKey(software_keys, kres.key_id).private_key,
                                 kres.data)

\* get_keypair was called for an id both stores hold, the hardware store
\* available, and returned the software KeyPair.
C26_Witness ==
    /\ kres.op = "get_keypair"
    /\ kres.had_sw
    /\ kres.had_tpm
    /\ tpm_available
    /\ kres.kp.storage_type = "software"

\* The operations of CryptoManager, by the name kres records them under.
ManagerOps ==
    {"generate_keypair", "get_keypair", "private_key_bytes", "sign_data",
     "verify_signed", "verify_truncated", "delete_key", "list_keys"}

OnlyInHardware(key_id) ==
    ~HasKey(software_keys, key_id) /\ HasKey(tpm_keys, key_id)

\* A step of a CryptoManager operation taken while the hardware store is
\* unavailable leaves the hardware keys as they are, and answers for an id
\* held only there as if the id did not exist; when the store becomes
\* available, sign_data for such an id signs with the key stored before.
HardwareUntouched ==
    /\ (~tpm_available /\ kres'.op \in ManagerOps) => tpm_keys' = tpm_keys
    /\ (~tpm_available /\ OnlyInHardware(kres'.key_id)) =>
          /\ kres'.op = "sign_data" =>
                kres'.err = KeyStorageErr /\ kres'.sig = NoSig
          /\ kres'.op = "get_keypair" => kres'.kp = NoKeyPair
          /\ kres'.op = "delete_key" =>
                /\ kres'.value = "False"
                /\ HasKey(tpm_keys', kres'.key_id)
                /\ GetKey(tpm_keys', kres'.key_id)
                   = GetKey(tpm_keys, kres'.key_id)
    /\ (kres'.op = "set_available" /\ ~tpm_available /\ tpm_available') =>
          \A id \in KeyIds, d \in Datas :
              OnlyInHardware(id) =>
                 sign_data(software_keys', tpm_keys', tpm_available', id, d)
                 = [err |-> "none",
                    sig |-> Ed25519Sign(GetKey(tpm_keys, id).signing_key, d)]

\* C27: while the hardware store is unavailable no CryptoManager operation
\* changes the keys it holds: for an id held only there sign_data fails
\* with KeyStorage, get_keypair returns None and delete_key returns false
\* and leaves the key in place, so that sign_data uses the same key again
\* once the store is available.
C27_UnavailableStoreUntouched == [][HardwareUntouched]_vars

\* delete_key was called for an id held only in the unavailable hardware
\* store, returned false and left the key there.
C27_Witness ==
    /\ kres.op = "delete_key"
    /\ ~tpm_available
    /\ ~kres.had_sw
    /\ kres.had_tpm
    /\ kres.value = "False"
    /\ HasKey(tpm_keys, kres.key_id)

\* A step of generate_keypair(key_id, "software"): it succeeds, the
\* software keystore then holds for key_id the pair returned and nothing
\* else, sign_data signs with the new key, and what sign_data answered for
\* key_id before the step no longer verifies under the public key
\* get_keypair now returns.  A step of generate_keypair that fails for an
\* accepted storage type is one for an id the available hardware store
\* holds, and every such call fails.
SoftwareGenerationReplaces ==
    /\ (kres'.op = "generate_keypair" /\ kres'.storage_type = "software") =>
          LET id == kres'.key_id
              now == get_keypair(software_keys', tpm_keys', tpm_available',
                                 id)
          IN /\ kres'.err = "none"
             /\ kres'.kp.storage_type = "software"
             /\ Count(list_keys(software_keys', tpm_keys'), id) = 1
             /\ GetKey(software_keys', id) = kres'.kp
             /\ now = kres'.kp
             /\ tpm_keys' = tpm_keys
             /\ \A d \in Datas :
                   LET old == sign_data(software_keys, tpm_keys,
                                        tpm_available, id, d)
                       new == sign_data(software_keys', tpm_keys',
                                        tpm_available', id, d)
                   IN /\ new = [err |-> "none",
                                sig |-> Ed25519Sign(kres'.kp.private_key, d)]
                      /\ CryptoManager_verify_signature(
                             now.public_key, d, new.sig).value = "True"
                      /\ old.err = "none" =>
                            CryptoManager_verify_signature(
                                now.public_key, d, old.sig).value = "False"
    /\ (kres'.op = "generate_keypair"
        /\ kres'.storage_type \in {"software", "tpm"}) =>
          (kres'.err # "none" <=>
              /\ kres'.storage_type = "tpm"
              /\ tpm_available
              /\ HasKey(tpm_keys, kres'.key_id))

\* C28: generate_keypair(id, "software") succeeds also when id already
\* exists in either store: the software entry for id is replaced by a new
\* pair, sign_data(id, d) signs with the new key, and signatures made for
\* id before no longer verify under get_keypair(id).public_key; only
\* generation in the hardware store rejects an existing id.
C28_SoftwareGenerationReplaces == [][SoftwareGenerationReplaces]_vars

\* generate_keypair(id, "software") succeeded for an id both stores held.
C28_Witness ==
    /\ kres.op = "generate_keypair"
    /\ kres.storage_type = "software"
    /\ kres.had_sw
    /\ kres.had_tpm
    /\ kres.err = "none"

StoresUnchanged ==
    software_keys' = software_keys /\ tpm_keys' = tpm_keys

\* A step of a CryptoManager operation that fails, and every step of
\* sign_data, verify_signature, get_keypair and list_keys, leaves both
\* stores as they were.
FailuresChangeNothing ==
    /\ (kres'.op \in {"generate_keypair", "sign_data", "verify_signed",
                      "verify_truncated"}
        /\ kres'.err # "none") => StoresUnchanged
    /\ kres'.op \in {"sign_data", "verify_signed", "verify_truncated",
                     "get_keypair", "list_keys"} => StoresUnchanged

\* C29: a CryptoManager operation that fails (generate_keypair with an
\* invalid storage type or for an id the hardware store holds, sign_data
\* for an unknown id, verify_signature with a malformed input) leaves the
\* software keystore and the hardware store exactly as they were, and
\* sign_data, verify_signature, get_keypair and list_keys never change
\* either store.
C29_FailuresChangeNothing == [][FailuresChangeNothing]_vars

\* generate_keypair(id, "tpm") failed for an id the hardware store holds.
C29_Witness ==
    /\ kres.op = "generate_keypair"
    /\ kres.storage_type = "tpm"
    /\ kres.had_tpm
    /\ kres.err = KeyGenErr
    /\ HasKey(tpm_keys, kres.key_id)
    /\ GetKey(tpm_keys, kres.key_id).signing_key = kres.old_key

\* ------------------------------------------------------------------------
\* Concurrent callers (checked under SpecRace)
\* ------------------------------------------------------------------------

\* C25: when sign_data(id, d) and delete_key(id) run at the same time on
\* one manager, sign_data ends by returning a signature made with a key
\* the manager held for id when it was called, or by raising KeyStorage or
\* Signing; it raises nothing else.
C25_ConcurrentSignAndDelete ==
    signer.pc = "done" =>
        \/ /\ signer.err = "none"
           /\ \/ signer.had_sw
                 /\ signer.sig = Ed25519Sign(signer.sw_key, signer.data)
              \/ signer.had_tpm
                 /\ signer.sig = Ed25519Sign(signer.tpm_key, signer.data)
        \/ signer.err \in {KeyStorageErr, SigningErr}

\* ------------------------------------------------------------------------
\* The default manager (checked under SpecDefault)
\* ------------------------------------------------------------------------

\* Thread t has returned from a call of op that began and ended with the
\* default manager set as often as it is now.
HasReturned(t, op) ==
    /\ callers[t].pc = "done"
    /\ callers[t].op = op
    /\ callers[t].sets = Sets

\* C23: get_crypto_manager() creates a manager at most once, whatever the
\* interleaving of its callers, and returns the same manager on every call
\* until set_crypto_manager(m), after which it returns m; a key that
\* quick_generate_keypair has generated is found by a later quick_sign.
C23_OneDefaultManager ==
    /\ Cardinality({i \in 1..Len(managers) : managers[i].by = "get"}) <= 1
    /\ \A t, u \in Threads :
          (HasReturned(t, "get_crypto_manager")
             /\ HasReturned(u, "get_crypto_manager")) =>
                callers[t].manager = callers[u].manager
    /\ \A t, u \in Threads :
          (HasReturned(t, "get_crypto_manager")
             /\ HasReturned(u, "set_crypto_manager")) =>
                callers[t].manager = callers[u].manager
    /\ \A t \in Threads :
          (HasReturned(t, "quick_sign") /\ callers[t].expected) =>
              callers[t].err = "none"

====
